---- MODULE Spec2Model ----
(***************************************************************************)
(* Model of fastcs-odin's ParameterTreeCache (io/parameter_cache.py): one  *)
(* cache instance shared by several asyncio tasks that call get and put.   *)
(* A task runs without interruption between two awaits, so each action    *)
(* below is the code between two suspension points.                       *)
(*                                                                         *)
(* Encodings.  A path string is held as the list of its "/"-separated      *)
(* segments (str.split("/") is a bijection between strings and non-empty   *)
(* lists of slash-free strings).  JSON values are tagged records.  Python  *)
(* exceptions are records of type, str() text and __cause__ type.          *)
(***************************************************************************)
EXTENDS Integers, Sequences, FiniteSets, TLC

----------------------------------------------------------------------------
(* Bounds *)

NumCallers == 2
MaxCalls == 3
MaxTime == 2
MaxVal == 2

Callers == 1..NumCallers
Vals == 1..MaxVal

----------------------------------------------------------------------------
(* JSON values (http_connection.JsonType) *)

JInt(n) == [kind |-> "int", val |-> n]
JStr(s) == [kind |-> "str", val |-> s]
JNull == [kind |-> "null", val |-> 0]
JDict(f) == [kind |-> "dict", items |-> f]
JList(s) == [kind |-> "list", items |-> s]

EmptyDict == JDict(<<>>)

----------------------------------------------------------------------------
(* Python exceptions and call outcomes *)

NoExc == [type |-> "None", msg |-> "", cause |-> "None"]
Exc(type, msg) == [type |-> type, msg |-> msg, cause |-> "None"]

\* AdapterResponseError(error) raised `from error`, error an exception:
\* str() of the new exception is str(error), __cause__ is error.
WrapError(error) ==
    [type |-> "AdapterResponseError", msg |-> error.msg, cause |-> error.type]

\* AdapterResponseError(error), error the JSON value of the "error" key.
EnvelopeError(error) == Exc("AdapterResponseError", error.val)

Return(v) == [kind |-> "return", val |-> v, exc |-> NoExc]
Raise(e) == [kind |-> "raise", val |-> JNull, exc |-> e]
NoOutcome == [kind |-> "none", val |-> JNull, exc |-> NoExc]

Ok(v) == [ok |-> TRUE, val |-> v, exc |-> NoExc]
Err(e) == [ok |-> FALSE, val |-> JNull, exc |-> e]

----------------------------------------------------------------------------
(* Python subscripting *)

\* int(s) for the segment strings of the model; any other string raises
\* ValueError.
IntTable == [s \in {"0", "1", "2", "-1"} |->
                CASE s = "0" -> 0 [] s = "1" -> 1 [] s = "2" -> 2 [] s = "-1" -> 0 - 1]

\* tree[key] with a str key: only a dict accepts it.
GetItemStr(tree, key) ==
    IF tree.kind = "dict"
    THEN IF key \in DOMAIN tree.items
         THEN Ok(tree.items[key])
         ELSE Err(Exc("KeyError", key))
    ELSE Err(Exc("TypeError", tree.kind))

\* tree[int(key)] for a list: int() may raise ValueError, the index may be
\* out of range, a negative index counts from the end.
GetItemInt(tree, key) ==
    IF key \notin DOMAIN IntTable
    THEN Err(Exc("ValueError", key))
    ELSE LET i == IntTable[key]
             n == Len(tree.items)
         IN  IF i >= 0 /\ i < n THEN Ok(tree.items[i + 1])
             ELSE IF i < 0 /\ 0 - i <= n THEN Ok(tree.items[n + i + 1])
             ELSE Err(Exc("IndexError", key))

\* tree[key] = value with a str key: only a dict accepts it.
SetItemStr(tree, key, value) ==
    IF tree.kind = "dict"
    THEN Ok(JDict([k \in (DOMAIN tree.items) \cup {key} |->
                      IF k = key THEN value ELSE tree.items[k]]))
    ELSE Err(Exc("TypeError", tree.kind))

----------------------------------------------------------------------------
(* ParameterTreeCache helpers *)

RECURSIVE _resolve_value(_, _)
_resolve_value(path_elems, tree) ==
    IF Len(path_elems) = 1
    THEN IF tree.kind = "list"
         THEN GetItemInt(tree, path_elems[1])
         ELSE GetItemStr(tree, path_elems[1])
    ELSE IF Len(path_elems) = 0
    THEN Err(Exc("IndexError", "path_elems"))
    ELSE LET sub == GetItemStr(tree, path_elems[1])
         IN  IF sub.ok THEN _resolve_value(Tail(path_elems), sub.val) ELSE sub

\* The tree is patched in place; the result is the tree after the call, or
\* the exception (raised before anything was assigned).
RECURSIVE _update_value(_, _, _)
_update_value(path_elems, value, tree) ==
    IF Len(path_elems) = 1
    THEN SetItemStr(tree, path_elems[1], value)
    ELSE IF Len(path_elems) = 0
    THEN Err(Exc("IndexError", "path_elems"))
    ELSE LET sub == GetItemStr(tree, path_elems[1])
         IN  IF ~sub.ok THEN sub
             ELSE LET r == _update_value(Tail(path_elems), value, sub.val)
                  IN  IF r.ok THEN SetItemStr(tree, path_elems[1], r.val) ELSE r

----------------------------------------------------------------------------
(* The remote adapter and the calls the tasks make *)

path_prefix == "fp"

\* The adapter's parameter tree when every leaf carries generation v.
RemoteTree(v) ==
    JDict([a |-> JDict([b |-> JInt(10 + v),
                        a |-> JDict([b |-> JInt(20 + v)])]),
           c |-> JList(<<JInt(30 + v), JDict([b |-> JInt(40 + v)])>>),
           d |-> JInt(50 + v)])

ErrorEnvelope == JDict([error |-> JStr("No, you can't do that")])

\* Bodies connection.get can return: a tree or an error envelope.
GetBodies == {RemoteTree(v) : v \in Vals} \cup {ErrorEnvelope}

\* Bodies connection.put can return for a path: the confirmed value keyed by
\* the last segment, or an error envelope.
PutBodies(path) ==
    {JDict([k \in {path[Len(path)]} |-> JInt(v)]) : v \in Vals} \cup {ErrorEnvelope}

\* Exceptions the connection itself raises.
TransportErrors ==
    {Exc("ConnectionRefusedError", "Session is not open"),
     Exc("ValueError", "Got unexpected response")}

GetPaths ==
    {<<"d">>, <<"a", "b">>, <<"a", "a", "b">>, <<"c", "0">>, <<"c", "1", "b">>,
     <<"a", "z">>}

PutPaths == {<<"d">>, <<"a", "b">>, <<"a", "a", "b">>}

AllPutBodies == UNION {PutBodies(path) : path \in PutPaths}

\* update_period: None, 0 or a number of clock ticks.
PeriodNone == 0 - 1
UpdatePeriods == {PeriodNone, 0, 1}

NoReq == [method |-> "none", uri |-> <<>>, value |-> 0]
NoReply == [kind |-> "none", body |-> JNull, exc |-> NoExc]
Body(b) == [kind |-> "body", body |-> b, exc |-> NoExc]
Raised(e) == [kind |-> "raised", body |-> JNull, exc |-> e]

Idle ==
    [pc |-> "idle", path |-> <<>>, period |-> 0, value |-> 0, during |-> 0,
     req |-> NoReq]

NoUpdate == 0 - 1

----------------------------------------------------------------------------
VARIABLES
    _tree,          \* ParameterTreeCache._tree
    _last_update,   \* ParameterTreeCache._last_update: NoUpdate or a time
    _update_event,  \* ParameterTreeCache._update_event: TRUE when set
    now,            \* datetime.now()
    task,           \* per task: position in get/put, arguments, request sent
    fetches,        \* number of connection.get calls made so far
    ncalls,         \* number of get/put calls issued so far
    lastFetch,      \* the last connection.get that ended: number, body or failure
    patched,        \* a put has patched _tree since the last fetch ended
    raced,          \* a put has patched _tree while the last fetch was in flight
    ret             \* the call that ended in the last step, if any, and how

\* The controller hierarchy and the aggregates built on it
\* (io/status_summary_attribute_io.py, controllers/odin_data/frame_processor.py).
VARIABLES
    sub_controllers,  \* per controller: the names of its sub controllers, in dict order
    attributes,       \* per controller: its attributes by name, with access and value
    commands,         \* per controller: the names of its command methods
    _attributes,      \* per status summary: StatusSummaryAttributeIORef._attributes
    command_cache,    \* the adapter's cached_property values, by command name
    res               \* the hierarchy call that ended in the last step, and how

\* A config fan out attribute, its targets and the event loop that runs a
\* send (io/config_fan_sender_attribute_io.py).
VARIABLES
    target_value,   \* per target attribute: the value attribute.get() returns
    put_calls,      \* per target attribute: the values of the put calls of the send
    child,          \* per target attribute: the task gather made of its put
    gather,         \* the future gather returned: children finished, exception
    ready,          \* the event loop's queue of callbacks to run, first in first out
    sender,         \* the task inside send: its position and the value it sends
    fan             \* the fan out call that ended in the last step, and how

\* The flattener's input and output (util.py).
VARIABLES
    metadata,       \* the JSON metadata handed to create_odin_parameters
    parameters      \* the list it returned, once it was called

\* A frame processor controller that initialises itself
\* (controllers/odin_data/frame_processor.py).
VARIABLES
    odin_parameters,  \* the OdinParameter objects by identity: uri and _path
    held,             \* per controller: self.parameters, as identities
    added,            \* per controller: the names given to add_attribute
    fpc               \* where the initialisation is, and the plugins to come

\* A ParameterTreeAttributeIO and the tasks that read and write through it
\* (io/parameter_attribute_io.py).
VARIABLES
    _cache,         \* ParameterTreeAttributeIO._cache: per adapter, its cache
    io_task,        \* per attribute: position of the update or send it is in
    io_log          \* caches constructed, requests sent, the call that ended

cacheVars ==
    <<_tree, _last_update, _update_event, now, task, fetches, ncalls,
      lastFetch, patched, raced, ret>>

hierVars ==
    <<sub_controllers, attributes, commands, _attributes, command_cache, res>>

fanVars == <<target_value, put_calls, child, gather, ready, sender, fan>>

flatVars == <<metadata, parameters>>

splitVars == <<odin_parameters, held, added, fpc>>

ioVars == <<_cache, io_task, io_log>>

\* The state the cache's operations never touch.
otherVars == <<hierVars, fanVars, flatVars, splitVars, ioVars>>

vars ==
    <<_tree, _last_update, _update_event, now, task, fetches, ncalls,
      lastFetch, patched, raced, ret, otherVars>>

\* A controller without sub controllers.
NoControllers == [node \in {<<>>} |-> <<>>]

NoRes == [op |-> "none"]

NoRet ==
    [op |-> "none", path |-> <<>>, period |-> 0, value |-> 0, during |-> 0,
     waited |-> FALSE, reply |-> NoReply, out |-> NoOutcome]

\* A cache as its constructor leaves it, and no call made.
CacheInit ==
    /\ _tree = EmptyDict
    /\ _last_update = NoUpdate
    /\ _update_event = TRUE
    /\ now = 0
    /\ task = [p \in Callers |-> Idle]
    /\ fetches = 0
    /\ ncalls = 0
    /\ lastFetch = [id |-> 0, ok |-> FALSE, tree |-> EmptyDict]
    /\ patched = FALSE
    /\ raced = FALSE
    /\ ret = NoRet

\* No hierarchy: one controller without sub controllers or summaries.
NoHier ==
    /\ sub_controllers = NoControllers
    /\ attributes = [node \in {<<>>} |-> <<>>]
    /\ commands = [node \in {<<>>} |-> {}]
    /\ _attributes = <<>>
    /\ command_cache = <<>>
    /\ res = NoRes

\* No fan out attribute.
NoFan ==
    /\ target_value = <<>>
    /\ put_calls = <<>>
    /\ child = <<>>
    /\ gather = [state |-> "none"]
    /\ ready = <<>>
    /\ sender = [pc |-> "idle", value |-> 0]
    /\ fan = [op |-> "none"]

\* No metadata flattened.
NoFlat ==
    /\ metadata = [kind |-> "dict", pairs |-> <<>>]
    /\ parameters = [op |-> "none", again |-> FALSE]

\* No frame processor controller.
NoSplit ==
    /\ odin_parameters = <<>>
    /\ held = <<>>
    /\ added = <<>>
    /\ fpc = [pc |-> "none"]

\* No ParameterTreeAttributeIO.
NoIO ==
    /\ _cache = <<>>
    /\ io_task = <<>>
    /\ io_log = [op |-> "none"]

Init ==
    /\ CacheInit
    /\ NoHier
    /\ NoFan
    /\ NoFlat
    /\ NoSplit
    /\ NoIO

\* Tasks with a connection.get awaiting its reply.
InFlight == {p \in Callers : task[p].req.method = "GET"}

----------------------------------------------------------------------------
(* ParameterTreeCache.get *)

\* _has_expired with the comparison made inclusive.
_has_expired_inclusive(time_step) ==
    IF _last_update = NoUpdate
    THEN TRUE
    ELSE now - _last_update >= time_step

_has_expired(time_step) ==
    IF _last_update = NoUpdate
    THEN TRUE
    ELSE now - _last_update > time_step

\* `not update_period`
Falsy(update_period) == update_period = PeriodNone \/ update_period = 0

\* get without the is_set() test: every stale call fetches.
is_set_ignored == TRUE

is_set == _update_event

\* The two lines after the staleness block: split the path, resolve it.
ResolveOutcome(path, tree) ==
    LET r == _resolve_value(path, tree)
    IN  IF r.ok THEN Return(r.val) ELSE Raise(r.exc)

Ended(t, op, waited, reply, out) ==
    [op |-> op, path |-> t.path, period |-> t.period, value |-> t.value,
     during |-> t.during, waited |-> waited, reply |-> reply, out |-> out]

\* Tasks blocked in _update_event.wait() are made ready by set().
WakeWaiters(t) ==
    [q \in Callers |->
        IF t[q].pc = "waiting" THEN [t[q] EXCEPT !.pc = "woken"] ELSE t[q]]

\* Stale and the event is set: clear it and await connection.get.
BeginFetch(p, me) ==
    /\ _update_event' = FALSE
    /\ fetches' = fetches + 1
    /\ task' = [task EXCEPT ![p] =
           [me EXCEPT !.pc = "fetching",
                      !.req = [method |-> "GET", uri |-> <<path_prefix>>,
                               value |-> 0]]]
    /\ raced' = FALSE
    /\ ret' = NoRet

\* Not stale: resolve the path in the cached tree and return.
ReadCached(p, me) ==
    /\ ret' = Ended(me, "get", FALSE, NoReply, ResolveOutcome(me.path, _tree))
    /\ UNCHANGED <<_update_event, fetches, task, raced>>

\* get without the else branch: a stale call that finds the event clear
\* reads the cache at once.
AwaitUpdateSkipped(p, me) == ReadCached(p, me)

\* Stale and the event is clear: await _update_event.wait().
AwaitUpdate(p, me) ==
    /\ task' = [task EXCEPT ![p] = [me EXCEPT !.pc = "waiting"]]
    /\ ret' = NoRet
    /\ UNCHANGED <<_update_event, fetches, raced>>

\* A task calls get(path, update_period) and runs to its first await, or to
\* the end when the cache is fresh.
GetCall(p, path, update_period) ==
    /\ task[p].pc = "idle"
    /\ ncalls < MaxCalls
    /\ ncalls' = ncalls + 1
    /\ LET me == [Idle EXCEPT !.path = path, !.period = update_period,
                              !.during = IF InFlight # {} THEN fetches ELSE 0]
       IN  IF Falsy(update_period) \/ _has_expired(update_period)
           THEN IF is_set THEN BeginFetch(p, me) ELSE AwaitUpdate(p, me)
           ELSE ReadCached(p, me)
    /\ UNCHANGED <<otherVars, _tree, _last_update, now, lastFetch, patched>>

\* The envelope match on another key: no reply is taken for an error.
IsErrorEnvelopeWrongKey(response) ==
    response.kind = "dict" /\ "err" \in DOMAIN response.items

IsErrorEnvelope(response) ==
    response.kind = "dict" /\ "error" \in DOMAIN response.items

\* The failure path taking the update time: the failure is cached.
FetchFailedStamped(p, reply, error) ==
    /\ _update_event' = TRUE
    /\ _last_update' = now
    /\ task' = [WakeWaiters(task) EXCEPT ![p] = Idle]
    /\ lastFetch' = [id |-> fetches, ok |-> FALSE, tree |-> EmptyDict]
    /\ ret' = Ended(task[p], "get", FALSE, reply, Raise(WrapError(error)))
    /\ UNCHANGED <<_tree, patched, raced>>

\* The failure path without the finally block: the event stays clear.
FetchFailedEventLeftClear(p, reply, error) ==
    /\ task' = [task EXCEPT ![p] = Idle]
    /\ lastFetch' = [id |-> fetches, ok |-> FALSE, tree |-> EmptyDict]
    /\ ret' = Ended(task[p], "get", FALSE, reply, Raise(WrapError(error)))
    /\ UNCHANGED <<_tree, _last_update, _update_event, patched, raced>>

\* The fetch ends in an exception: it is logged and wrapped, and the finally
\* block sets the event.
FetchFailed(p, reply, error) ==
    /\ _update_event' = TRUE
    /\ task' = [WakeWaiters(task) EXCEPT ![p] = Idle]
    /\ lastFetch' = [id |-> fetches, ok |-> FALSE, tree |-> EmptyDict]
    /\ ret' = Ended(task[p], "get", FALSE, reply, Raise(WrapError(error)))
    /\ UNCHANGED <<_tree, _last_update, patched, raced>>

\* The fetched tree merged under what the puts have patched: a patched
\* cache is left as it is.
FetchSucceededKeepsPatches(p, response) ==
    /\ _tree' = IF patched THEN _tree ELSE response
    /\ _last_update' = now
    /\ _update_event' = TRUE
    /\ task' = [WakeWaiters(task) EXCEPT ![p] = Idle]
    /\ lastFetch' = [id |-> fetches, ok |-> TRUE, tree |-> response]
    /\ patched' = FALSE
    /\ ret' = Ended(task[p], "get", FALSE, Body(response),
                    ResolveOutcome(task[p].path, response))
    /\ UNCHANGED raced

\* The reply is a tree: it replaces the cached tree, the update time is
\* taken, the finally block sets the event, and the path is resolved.
FetchSucceeded(p, response) ==
    /\ _tree' = response
    /\ _last_update' = now
    /\ _update_event' = TRUE
    /\ task' = [WakeWaiters(task) EXCEPT ![p] = Idle]
    /\ lastFetch' = [id |-> fetches, ok |-> TRUE, tree |-> response]
    /\ patched' = FALSE
    /\ ret' = Ended(task[p], "get", FALSE, Body(response),
                    ResolveOutcome(task[p].path, response))
    /\ UNCHANGED raced

\* connection.get returns a body to the fetching task.
ConnGetReturns(p, response) ==
    /\ task[p].pc = "fetching"
    /\ IF IsErrorEnvelope(response)
       THEN FetchFailed(p, Body(response), EnvelopeError(response.items["error"]))
       ELSE FetchSucceeded(p, response)
    /\ UNCHANGED <<otherVars, now, fetches, ncalls>>

\* connection.get raises.
ConnGetRaises(p, error) ==
    /\ task[p].pc = "fetching"
    /\ FetchFailed(p, Raised(error), error)
    /\ UNCHANGED <<otherVars, now, fetches, ncalls>>

\* A task made ready by set() returns from wait() and resolves its path.
Resume(p) ==
    /\ task[p].pc = "woken"
    /\ task' = [task EXCEPT ![p] = Idle]
    /\ ret' = Ended(task[p], "get", TRUE, NoReply,
                    ResolveOutcome(task[p].path, _tree))
    /\ UNCHANGED <<otherVars, _tree, _last_update, _update_event, now, fetches, ncalls,
                   lastFetch, patched, raced>>

----------------------------------------------------------------------------
(* ParameterTreeCache.put *)

\* The uri without the path prefix.
PutUriNoPrefix(prefix, path) == path

\* f"{self.path_prefix}/{path}"
PutUri(prefix, path) == <<prefix>> \o path

\* A task calls put(path, value) and runs to `await connection.put`.
PutCall(p, path, value) ==
    /\ task[p].pc = "idle"
    /\ ncalls < MaxCalls
    /\ ncalls' = ncalls + 1
    /\ task' = [task EXCEPT ![p] =
           [Idle EXCEPT !.pc = "putting", !.path = path, !.value = value,
                        !.during = IF InFlight # {} THEN fetches ELSE 0,
                        !.req = [method |-> "PUT",
                                 uri |-> PutUri(path_prefix, path),
                                 value |-> value]]]
    /\ ret' = NoRet
    /\ UNCHANGED <<otherVars, _tree, _last_update, _update_event, now, fetches,
                   lastFetch, patched, raced>>

\* response.get(key)
DictGet(response, key) ==
    IF key \in DOMAIN response.items THEN response.items[key] ELSE JNull

\* The path elements put hands to _update_value.
PatchElems(path_elems) == Tail(path_elems)

\* connection.put returns a body.
ConnPutReturns(p, response) ==
    /\ task[p].pc = "putting"
    /\ response \in PutBodies(task[p].path)
    /\ IF IsErrorEnvelope(response)
       THEN /\ ret' = Ended(task[p], "put", FALSE, Body(response),
                       Raise(WrapError(EnvelopeError(response.items["error"]))))
            /\ UNCHANGED <<_tree, patched, raced>>
       ELSE LET path_elems == task[p].path
                new_value == DictGet(response, path_elems[Len(path_elems)])
                r == _update_value(PatchElems(path_elems), new_value, _tree)
            IN  IF r.ok
                THEN /\ _tree' = r.val
                     /\ patched' = TRUE
                     /\ raced' = (raced \/ InFlight # {})
                     /\ ret' = Ended(task[p], "put", FALSE, Body(response),
                                     Return(JNull))
                ELSE /\ ret' = Ended(task[p], "put", FALSE, Body(response),
                                     Raise(WrapError(r.exc)))
                     /\ UNCHANGED <<_tree, patched, raced>>
    /\ task' = [task EXCEPT ![p] = Idle]
    /\ UNCHANGED <<otherVars, _last_update, _update_event, now, fetches, ncalls,
                   lastFetch>>

\* connection.put raises.
ConnPutRaises(p, error) ==
    /\ task[p].pc = "putting"
    /\ ret' = Ended(task[p], "put", FALSE, Raised(error), Raise(WrapError(error)))
    /\ task' = [task EXCEPT ![p] = Idle]
    /\ UNCHANGED <<otherVars, _tree, _last_update, _update_event, now, fetches, ncalls,
                   lastFetch, patched, raced>>

----------------------------------------------------------------------------
\* Time passes.
Tick ==
    /\ now < MaxTime
    /\ now' = now + 1
    /\ ret' = NoRet
    /\ UNCHANGED <<otherVars, _tree, _last_update, _update_event, task, fetches, ncalls,
                   lastFetch, patched, raced>>

\* Tasks differ in nothing but their number: a new call is taken by the
\* lowest-numbered task that is not inside a call.
Free(p) == task[p].pc = "idle" /\ \A q \in 1..(p - 1) : task[q].pc # "idle"

\* Several tasks share the cache and call it on one parameter each way.
SharedGetPaths == {<<"a", "b">>}
SharedPutPaths == {<<"a", "a", "b">>}
\* put forwards the value and never reads it: one value is written.
SharedPutValues == {1}

Next ==
    \/ \E p \in Callers, path \in SharedGetPaths, period \in UpdatePeriods :
          Free(p) /\ GetCall(p, path, period)
    \/ \E p \in Callers, response \in GetBodies : ConnGetReturns(p, response)
    \/ \E p \in Callers, error \in TransportErrors : ConnGetRaises(p, error)
    \/ \E p \in Callers : Resume(p)
    \/ \E p \in Callers, path \in SharedPutPaths, value \in SharedPutValues :
          Free(p) /\ PutCall(p, path, value)
    \/ \E p \in Callers, response \in AllPutBodies : ConnPutReturns(p, response)
    \/ \E p \in Callers, error \in TransportErrors : ConnPutRaises(p, error)
    \/ Tick

Spec == Init /\ [][Next]_vars

\* A cache that a first get has filled at time 0; the calls are counted from
\* here on.
FilledInit ==
    /\ _tree = RemoteTree(1)
    /\ _last_update = 0
    /\ _update_event = TRUE
    /\ now = 0
    /\ task = [p \in Callers |-> Idle]
    /\ fetches = 1
    /\ ncalls = 0
    /\ lastFetch = [id |-> 1, ok |-> TRUE, tree |-> RemoteTree(1)]
    /\ patched = FALSE
    /\ raced = FALSE
    /\ ret = NoRet
    /\ NoHier
    /\ NoFan
    /\ NoFlat
    /\ NoSplit
    /\ NoIO

\* The tasks share a cache that already holds a tree.
FilledSpec == FilledInit /\ [][Next]_vars

\* One task makes its calls one after the other, on every path.
NextSeq ==
    \/ \E path \in GetPaths, period \in UpdatePeriods : GetCall(1, path, period)
    \/ \E response \in GetBodies : ConnGetReturns(1, response)
    \/ \E error \in TransportErrors : ConnGetRaises(1, error)
    \/ \E path \in PutPaths, value \in Vals : PutCall(1, path, value)
    \/ \E response \in AllPutBodies : ConnPutReturns(1, response)
    \/ \E error \in TransportErrors : ConnPutRaises(1, error)
    \/ Tick

SeqSpec == Init /\ [][NextSeq]_vars

\* Every fetch eventually gets its reply, and a task made ready is run.
LiveSpec ==
    /\ Spec
    /\ WF_vars(\E p \in Callers : (\E response \in GetBodies : ConnGetReturns(p, response))
                                  \/ (\E error \in TransportErrors : ConnGetRaises(p, error)))
    /\ \A p \in Callers : WF_vars(Resume(p))

----------------------------------------------------------------------------
(* Properties *)

\* The call that ended in the last step is a get.
GetEnded == ret.op = "get"

\* The call that ended in the last step is a get that awaited the event.
WaiterEnded == ret.op = "get" /\ ret.waited

\* C1: at any time at most one connection.get of the path prefix is awaiting
\* its reply, whatever gets and puts the tasks interleave.
C1_SingleFlight == Cardinality(InFlight) <= 1

\* A fetch is in flight while another task's get waits on the event.
C1_Witness ==
    \E p, q \in Callers : task[p].pc = "fetching" /\ task[q].pc = "waiting"

\* Staleness as the specification words it.
Stale(ttl) ==
    \/ ttl = PeriodNone
    \/ ttl = 0
    \/ _last_update = NoUpdate
    \/ now - _last_update > ttl

\* C2 as stated: a get issued while a fetch is in flight starts no fetch,
\* ends only after that fetch has ended, and then returns what its path
\* holds in the tree that fetch returned.
C2_AllCallersSeeFetch ==
    (GetEnded /\ ret.during # 0) =>
        /\ lastFetch.id >= ret.during
        /\ (lastFetch.id = ret.during /\ lastFetch.ok) =>
               ret.out = ResolveOutcome(ret.path, lastFetch.tree)

\* C2, amended: a get issued while a fetch is in flight starts no fetch.  If
\* the cache is stale for its period it waits until that fetch has ended and
\* returns what its path holds in the cached tree, which is the tree that
\* fetch returned when the fetch succeeded and neither a put nor a later
\* fetch has changed the cache before the call resumes.  If the cache is not
\* stale for its period it returns at once from the tree cached before.
C2_WaitersSeeFetch ==
    [][/\ \A p \in Callers :
              (InFlight # {} /\ task[p].pc = "idle"
                  /\ task'[p].pc \notin {"idle", "putting"}) =>
                  /\ task'[p].pc = "waiting"
                  /\ Stale(task'[p].period)
                  /\ fetches' = fetches
       /\ (InFlight # {} /\ ncalls' = ncalls + 1 /\ ret'.op = "get") =>
              /\ ~Stale(ret'.period)
              /\ ret'.out = ResolveOutcome(ret'.path, _tree)
              /\ fetches' = fetches
       /\ \A p \in Callers :
              (task[p].pc = "waiting" /\ task'[p].pc # "waiting") =>
                  /\ task'[p].pc = "woken"
                  /\ lastFetch'.id = task[p].during
       /\ \A p \in Callers :
              (task[p].pc = "woken" /\ task'[p].pc # "woken") =>
                  /\ fetches' = fetches
                  /\ ret'.waited
                  /\ ret'.out = ResolveOutcome(task[p].path, _tree)
                  /\ (lastFetch.id = task[p].during /\ lastFetch.ok /\ ~patched) =>
                         _tree = lastFetch.tree]_vars

\* A get that waited through a successful fetch has returned a value of the
\* fetched tree.
C2_Witness ==
    /\ WaiterEnded
    /\ lastFetch.id = ret.during
    /\ lastFetch.ok
    /\ ~patched
    /\ ret.out.kind = "return"

\* C3: a get call starts a remote fetch exactly when no fetch is in flight
\* and the cache is stale (period None or 0, no update yet, or strictly more
\* than the period since the last update).
C3_FetchIffStale ==
    [][/\ \A p \in Callers :
              (task[p].pc = "idle" /\ task'[p].pc \in {"fetching", "waiting"}) =>
                  /\ fetches' = fetches + 1 <=> task'[p].pc = "fetching"
                  /\ task'[p].pc = "fetching" <=>
                         (InFlight = {} /\ Stale(task'[p].period))
       /\ (ncalls' = ncalls + 1 /\ ret'.op = "get") =>
              /\ fetches' = fetches
              /\ ~(InFlight = {} /\ Stale(ret'.period))]_vars

\* A get with period 1 issued exactly one tick after the last update has
\* been served from the cache.
C3_Witness ==
    /\ GetEnded
    /\ ~ret.waited
    /\ ret.reply.kind = "none"
    /\ ret.period = 1
    /\ _last_update # NoUpdate
    /\ now - _last_update = 1
    /\ InFlight = {}

\* C4: the event is clear exactly while a fetch is in flight, and when every
\* fetch gets its reply no task stays inside a get call for ever: every get
\* call, fetching or waiting, ends.
C4_GateReopens ==
    /\ [](~_update_event <=> InFlight # {})
    /\ \A p \in Callers :
           []<>(task[p].pc \notin {"fetching", "waiting", "woken"})

\* A fetch has failed, the event is set again and a waiter has been made
\* ready.
C4_Witness ==
    /\ ~lastFetch.ok
    /\ lastFetch.id > 0
    /\ _update_event
    /\ \E p \in Callers : task[p].pc = "woken"

\* C5: when a fetch fails, the get that started it and every get that waited
\* on the event during it raise; none of them returns a value.
C5_WaitersGetError ==
    (GetEnded /\ ~lastFetch.ok /\ lastFetch.id > 0 /\
        (ret.reply.kind # "none" \/ (ret.waited /\ lastFetch.id = ret.during))) =>
        ret.out.kind = "raise"

\* The reply of the call that ended is a body with an "error" key.
EnvelopeReply(r) ==
    r.reply.kind = "body" /\ r.reply.body.kind = "dict"
        /\ "error" \in DOMAIN r.reply.body.items

\* C6: with no fetch in flight, a put on a path the cached tree resolves whose
\* reply is not an error envelope returns normally, and a get of the same
\* path served from the cache then returns the value the reply carries for
\* the last path segment.
C6_WriteThrough ==
    [][(/\ ret'.op = "put"
        /\ ret'.reply.kind = "body"
        /\ ~EnvelopeReply(ret')
        /\ InFlight = {}
        /\ _resolve_value(ret'.path, _tree).ok) =>
           /\ ret'.out = Return(JNull)
           /\ ResolveOutcome(ret'.path, _tree') =
                  Return(DictGet(ret'.reply.body, ret'.path[Len(ret'.path)]))]_vars

\* C7: a put call sends one PUT, to path_prefix/path and with the value it
\* was given, sends nothing else while it runs, and makes no connection.get.
C7_OnePutNoGet ==
    [][\A p \in Callers :
          /\ (task[p].pc = "idle" /\ task'[p].pc = "putting") =>
                 /\ task'[p].req = [method |-> "PUT",
                                    uri |-> <<path_prefix>> \o task'[p].path,
                                    value |-> task'[p].value]
                 /\ fetches' = fetches
          /\ (task[p].pc = "putting" /\ task'[p] # task[p]) =>
                 /\ task'[p] = Idle
                 /\ ret'.op = "put"
                 /\ ret'.path = task[p].path
                 /\ ret'.value = task[p].value
                 /\ fetches' = fetches]_vars

\* A PUT for a path of several segments is awaiting its reply.
C7_Witness ==
    \E p \in Callers :
        /\ task[p].pc = "putting"
        /\ task[p].req.uri = <<"fp", "a", "a", "b">>
        /\ task[p].req.value = MaxVal

\* C8: a put whose reply is an error envelope raises AdapterResponseError
\* with the envelope's message and leaves the tree, the update time and the
\* event as they were.
C8_EnvelopeLeavesCache ==
    [][(ret'.op = "put" /\ EnvelopeReply(ret')) =>
           /\ ret'.out.kind = "raise"
           /\ ret'.out.exc.type = "AdapterResponseError"
           /\ ret'.out.exc.msg = ret'.reply.body.items["error"].val
           /\ UNCHANGED <<_tree, _last_update, _update_event>>]_vars

\* A put on a populated cache has ended on an error envelope.
C8_Witness ==
    /\ ret.op = "put"
    /\ EnvelopeReply(ret)
    /\ ret.out.kind = "raise"
    /\ _tree # EmptyDict

\* C9: an exception raised by connection.get or connection.put reaches the
\* caller of get or put as it was raised, and is not an
\* AdapterResponseError.
C9_TransportUnchanged ==
    ret.reply.kind = "raised" =>
        /\ ret.out = Raise(ret.reply.exc)
        /\ ret.out.exc.type # "AdapterResponseError"

\* Descent as the specification words it: a list is indexed by the integer
\* value of the segment and a dict by the segment, at every depth.
RECURSIVE Descend(_, _)
Descend(path, tree) ==
    IF path = <<>>
    THEN Ok(tree)
    ELSE IF tree.kind = "list"
    THEN IF Head(path) \in DOMAIN IntTable
            /\ IntTable[Head(path)] >= 0
            /\ IntTable[Head(path)] < Len(tree.items)
         THEN Descend(Tail(path), tree.items[IntTable[Head(path)] + 1])
         ELSE Err(Exc("LookupError", Head(path)))
    ELSE IF tree.kind = "dict" /\ Head(path) \in DOMAIN tree.items
    THEN Descend(Tail(path), tree.items[Head(path)])
    ELSE Err(Exc("LookupError", Head(path)))

\* The get that ended resolved its path (its fetch, if any, succeeded).
GetResolved ==
    /\ GetEnded
    /\ ret.reply.kind # "raised"
    /\ ~EnvelopeReply(ret)

\* C10: a get that gets as far as resolving its path returns the value the
\* descent reaches, and raises a lookup error exactly when a segment is
\* absent.
C10_DescendsAnyDepth ==
    GetResolved =>
        IF Descend(ret.path, _tree).ok
        THEN ret.out = Return(Descend(ret.path, _tree).val)
        ELSE /\ ret.out.kind = "raise"
             /\ ret.out.exc.type \in {"KeyError", "IndexError"}

----------------------------------------------------------------------------
(* The controller hierarchy *)

\* The frame processor applications run under the adapter are numbered from 0.
NumFP == 2

\* str(index) of an application.
IndexName(i) == <<"0", "1", "2", "3">>[i + 1]
IndexNames == {IndexName(i) : i \in 0..(NumFP - 1)}

\* A controller is known by its path from the top controller.
Top == <<>>
Adapter == <<"FP">>
Child(controller, key) == Append(controller, key)

\* The characters of a sub controller name.
Chars(key) ==
    CASE key = "0" -> <<"0">>
      [] key = "1" -> <<"1">>
      [] key = "2" -> <<"2">>
      [] key = "3" -> <<"3">>
      [] key = "FP" -> <<"F", "P">>
      [] key = "HDF" -> <<"H", "D", "F">>
      [] key = "OD" -> <<"O", "D">>

\* A compiled regular expression is a list of atoms: a character set with a
\* quantifier, "1" for exactly one, "*" for any number, "+" for at least one.
Atom(set, q) == [set |-> set, q |-> q]
Digits == {"0", "1", "2", "3", "4", "5", "6", "7", "8", "9"}

RECURSIVE MatchAtoms(_, _)
\* re.Pattern.match: the pattern matches at the start of the string; what
\* follows the match is not looked at.
MatchAtoms(atoms, chars) ==
    IF atoms = <<>>
    THEN TRUE
    ELSE LET a == Head(atoms)
             takes == chars # <<>> /\ Head(chars) \in a.set
         IN  CASE a.q = "1" -> takes /\ MatchAtoms(Tail(atoms), Tail(chars))
               [] a.q = "*" -> \/ MatchAtoms(Tail(atoms), chars)
                               \/ takes /\ MatchAtoms(atoms, Tail(chars))
               [] a.q = "+" ->
                     takes /\ MatchAtoms(<<Atom(a.set, "*")>> \o Tail(atoms),
                                         Tail(chars))

\* pattern.match(key)
PatternMatch(pattern, key) == MatchAtoms(pattern.atoms, Chars(key))

\* The steps of a path filter: a str, a tuple of str, or a compiled pattern.
StrStep(key) == [kind |-> "str", key |-> key]
TupleStep(keys) == [kind |-> "tuple", keys |-> keys]
PatternStep(source, atoms) ==
    [kind |-> "pattern", source |-> source, atoms |-> atoms]

\* re.compile(r"[0-9]+"), re.compile("FP*"), re.compile("FP")
AnyIndex == PatternStep("[0-9]+", <<Atom(Digits, "+")>>)
FPStar == PatternStep("FP*", <<Atom({"F"}, "1"), Atom({"P"}, "*")>>)
FPExact == PatternStep("FP", <<Atom({"F"}, "1"), Atom({"P"}, "1")>>)

\* What a generator did when it was run to its end: the values it yielded,
\* in order, and the exception that ended it, if one did.
Gen(yielded, exc) == [yielded |-> yielded, exc |-> exc]

\* ValueError(f"Sub controller {key} not found in {controller}"), and the
\* same for a pattern; `what` is the key or the pattern's source.
NotFound(what, controller) ==
    [type |-> "ValueError", msg |-> what, cause |-> "None", at |-> controller]

\* key in sub_controller_map
HasKey(controller, key) ==
    \E i \in 1..Len(sub_controllers[controller]) :
        sub_controllers[controller][i] = key

RECURSIVE _filter_sub_controllers(_, _)
RECURSIVE YieldEach(_, _, _, _)

\* The loop left after its first pass: a return where the yield belongs.
YieldEachFirstOnly(controller, keys, path_filter, checked) ==
    IF keys = <<>>
    THEN Gen(<<>>, NoExc)
    ELSE LET key == Head(keys)
             sub_controller == Child(controller, key)
         IN  IF checked /\ ~HasKey(controller, key)
             THEN Gen(<<>>, NotFound(key, controller))
             ELSE IF Len(path_filter) = 1
                  THEN Gen(<<sub_controller>>, NoExc)
                  ELSE _filter_sub_controllers(sub_controller,
                                               Tail(path_filter))

\* The loop over the keys of a tuple step (checked: each key is looked up
\* first) or over the sub controllers a pattern selected.
YieldEach(controller, keys, path_filter, checked) ==
    IF keys = <<>>
    THEN Gen(<<>>, NoExc)
    ELSE LET key == Head(keys)
             sub_controller == Child(controller, key)
         IN  IF checked /\ ~HasKey(controller, key)
             THEN Gen(<<>>, NotFound(key, controller))
             ELSE LET first == IF Len(path_filter) = 1
                               THEN Gen(<<sub_controller>>, NoExc)
                               ELSE _filter_sub_controllers(sub_controller,
                                                            Tail(path_filter))
                  IN  IF first.exc # NoExc
                      THEN first
                      ELSE LET rest == YieldEach(controller, Tail(keys),
                                                 path_filter, checked)
                           IN  Gen(first.yielded \o rest.yielded, rest.exc)

\* The pattern case without its check for an empty selection.
_filter_sub_controllers_unchecked(controller, path_filter) ==
    IF path_filter = <<>>
    THEN Gen(<<>>, Exc("IndexError", "list index out of range"))
    ELSE LET sub_controller_map == sub_controllers[controller]
             step == path_filter[1]
         IN  CASE step.kind = "str" ->
                    YieldEach(controller, <<step.key>>, path_filter, TRUE)
               [] step.kind = "tuple" ->
                    YieldEach(controller, step.keys, path_filter, TRUE)
               [] OTHER ->
                    YieldEach(controller,
                              SelectSeq(sub_controller_map,
                                        LAMBDA key : PatternMatch(step, key)),
                              path_filter, FALSE)

_filter_sub_controllers(controller, path_filter) ==
    IF path_filter = <<>>
    THEN Gen(<<>>, Exc("IndexError", "list index out of range"))
    ELSE LET sub_controller_map == sub_controllers[controller]
             step == path_filter[1]
         IN  CASE step.kind = "str" ->
                    YieldEach(controller, <<step.key>>, path_filter, TRUE)
               [] step.kind = "tuple" ->
                    YieldEach(controller, step.keys, path_filter, TRUE)
               [] OTHER ->
                    LET matched ==
                            SelectSeq(sub_controller_map,
                                      LAMBDA key : PatternMatch(step, key))
                    IN  IF matched = <<>>
                        THEN Gen(<<>>, NotFound(step.source, controller))
                        ELSE YieldEach(controller, matched, path_filter, FALSE)

----------------------------------------------------------------------------
(* Hierarchies, attributes and commands *)

\* What stands under the adapter at an index: nothing, an application
\* without plugins, or an application whose HDF plugin has some of the
\* attributes and commands.
HDFKinds == {"full", "nowriting", "bare"}
AppShapes == {"absent", "plain"} \cup HDFKinds

\* An attribute: AttrR ("R") or AttrRW ("RW"), and the value it holds.
Attr(access, value) == [access |-> access, value |-> value]
IsAttrR(attr) == attr.access \in {"R", "RW"}

\* bool is a subclass of int: False is 0 and True is 1.
KindAttributes(kind, i) ==
    CASE kind = "full" ->
            [name \in {"frames_written", "writing"} |->
                IF name = "writing" THEN Attr("R", i % 2)
                                    ELSE Attr("R", 50 * (i + 1))]
      [] kind = "nowriting" ->
            [name \in {"frames_written"} |-> Attr("R", 50 * (i + 1))]
      [] OTHER -> <<>>

KindCommands(kind) ==
    CASE kind = "full" -> {"start_writing", "stop_writing"}
      [] kind = "nowriting" -> {"start_writing"}
      [] OTHER -> {}

\* The values an attribute's own IO may set it to.
LeafValues(name) == IF name = "writing" THEN {0, 1} ELSE {50, 100}

IndexOf(key) == CHOOSE i \in 0..(NumFP - 1) : IndexName(i) = key

\* The controllers of a hierarchy with the adapter under the top controller
\* and the applications of the given shapes under the adapter.
ShapeControllers(shape) ==
    {Top, Adapter}
        \cup {Child(Adapter, key) : key \in {k \in IndexNames : shape[k] # "absent"}}
        \cup {Child(Child(Adapter, key), "HDF") :
                  key \in {k \in IndexNames : shape[k] \in HDFKinds}}

\* add_sub_controller in index order.
ShapeSubControllers(shape, controller) ==
    CASE controller = Top -> <<"FP">>
      [] controller = Adapter ->
            SelectSeq([i \in 1..NumFP |-> IndexName(i - 1)],
                      LAMBDA key : shape[key] # "absent")
      [] Len(controller) = 2 /\ shape[controller[2]] \in HDFKinds -> <<"HDF">>
      [] OTHER -> <<>>

\* The status summaries the top controller declares, in the order of its
\* attributes: name, path filter, attribute name and accumulator.
Summary(path_filter, attribute_name, accumulator) ==
    [path_filter |-> path_filter, attribute_name |-> attribute_name,
     accumulator |-> accumulator]

SummaryNames == <<"frames_written", "writing">>

Summaries ==
    [name \in {"frames_written", "writing"} |->
        IF name = "frames_written"
        THEN Summary(<<StrStep("FP"), AnyIndex, StrStep("HDF")>>,
                     "frames_written", "sum")
        ELSE Summary(<<StrStep("FP"), AnyIndex, TupleStep(<<"HDF">>)>>,
                     "writing", "any")]

\* The summaries are attributes of the top controller: AttrR(Int()) and
\* AttrR(Bool()) with the datatypes' initial values.
SummaryAttributes == [name \in DOMAIN Summaries |-> Attr("R", 0)]

\* StatusSummaryAttributeIORef._attributes is None.
NoAttributes == [set |-> FALSE, attributes |-> <<>>]
Attributes(attrs) == [set |-> TRUE, attributes |-> attrs]

HierInit ==
    /\ CacheInit
    /\ NoFan
    /\ NoFlat
    /\ NoSplit
    /\ NoIO
    /\ \/ /\ sub_controllers = NoControllers
          /\ attributes = [node \in {Top} |-> SummaryAttributes]
          /\ commands = [node \in {Top} |-> {}]
       \/ \E shape \in [IndexNames -> AppShapes] :
             /\ sub_controllers =
                    [node \in ShapeControllers(shape) |->
                        ShapeSubControllers(shape, node)]
             /\ attributes =
                    [node \in ShapeControllers(shape) |->
                        CASE Len(node) = 3 ->
                                KindAttributes(shape[node[2]], IndexOf(node[2]))
                          [] node = Top -> SummaryAttributes
                          [] OTHER -> <<>>]
             /\ commands =
                    [node \in ShapeControllers(shape) |->
                        IF Len(node) = 3
                        THEN KindCommands(shape[node[2]])
                        ELSE {}]
    /\ _attributes = [name \in DOMAIN Summaries |-> NoAttributes]
    /\ command_cache = <<>>
    /\ res = NoRes

Controllers == DOMAIN sub_controllers

\* The filters resolution is called with.
PathFilters ==
    { <<StrStep("FP")>>, <<StrStep("OD")>>, <<AnyIndex>>, <<FPStar>>,
      <<TupleStep(<<"1", "0">>)>>,
      <<AnyIndex, StrStep("HDF")>>,
      <<TupleStep(<<"1", "0">>), StrStep("HDF")>>,
      <<FPExact, AnyIndex>>,
      <<StrStep("FP"), AnyIndex, StrStep("HDF")>>,
      <<FPStar, TupleStep(<<"1", "0">>), TupleStep(<<"HDF">>)>> }

\* A caller runs the generator to its end, as list(...) does.
FilterSubControllers(controller, path_filter) ==
    /\ controller \in Controllers
    /\ res' = [op |-> "filter", controller |-> controller,
               path_filter |-> path_filter,
               out |-> _filter_sub_controllers(controller, path_filter)]
    /\ UNCHANGED <<sub_controllers, attributes, commands, _attributes,
                   command_cache>>
    /\ UNCHANGED <<cacheVars, fanVars, flatVars, splitVars, ioVars>>

\* One pass of the loop over the summaries: the sub controllers the filter
\* yields are looked at one by one as they are yielded, so a missing
\* attribute on one of them is met before a step that fails later in the
\* walk.
RECURSIVE CollectAttributes(_, _)
CollectAttributes(yielded, attribute_name) ==
    IF yielded = <<>>
    THEN Ok(<<>>)
    ELSE LET sub_controller == Head(yielded)
         IN  IF attribute_name \notin DOMAIN attributes[sub_controller]
             THEN Err([type |-> "KeyError", msg |-> attribute_name,
                       cause |-> "KeyError", at |-> sub_controller])
             ELSE LET attr == [controller |-> sub_controller,
                               name |-> attribute_name]
                      rest == CollectAttributes(Tail(yielded), attribute_name)
                  IN  IF ~rest.ok
                      THEN rest
                      ELSE IF IsAttrR(attributes[sub_controller][attribute_name])
                           THEN Ok(<<attr>> \o rest.val)
                           ELSE rest

\* The binding that ignores how the generator ended.
BindSummaryPartial(controller, io_ref) ==
    CollectAttributes(
        _filter_sub_controllers(controller, io_ref.path_filter).yielded,
        io_ref.attribute_name)

\* The body of the loop for one summary: the attributes to bind, or the
\* exception that ends initialise_summary_attributes.
BindSummary(controller, io_ref) ==
    LET gen == _filter_sub_controllers(controller, io_ref.path_filter)
        collected == CollectAttributes(gen.yielded, io_ref.attribute_name)
    IN  IF ~collected.ok
        THEN collected
        ELSE IF gen.exc # NoExc THEN Err(gen.exc) ELSE collected

RECURSIVE InitialiseFrom(_, _, _)
\* The loop over controller.attributes.values(), from the i-th summary on.
InitialiseFrom(controller, names, bound) ==
    IF names = <<>>
    THEN [bound |-> bound, exc |-> NoExc]
    ELSE LET name == Head(names)
             r == BindSummary(controller, Summaries[name])
         IN  IF ~r.ok
             THEN [bound |-> bound, exc |-> r.exc]
             ELSE InitialiseFrom(controller, Tail(names),
                                 [bound EXCEPT ![name] = Attributes(r.val)])

initialise_summary_attributes(controller) ==
    /\ controller = Top
    /\ LET r == InitialiseFrom(controller, SummaryNames, _attributes)
       IN  /\ _attributes' = r.bound
           /\ res' = [op |-> "initialise",
                      out |-> IF r.exc = NoExc THEN Return(JNull)
                                               ELSE Raise(r.exc)]
    /\ UNCHANGED <<sub_controllers, attributes, commands, command_cache>>
    /\ UNCHANGED <<cacheVars, fanVars, flatVars, splitVars, ioVars>>

\* partial(sum, start=0) and any; any returns a bool.
RECURSIVE Sum(_)
Sum(values) == IF values = <<>> THEN 0 ELSE Head(values) + Sum(Tail(values))

AnyTrue(values) == IF \E i \in 1..Len(values) : values[i] # 0 THEN 1 ELSE 0

Accumulate(accumulator, values) ==
    IF accumulator = "sum" THEN Sum(values) ELSE AnyTrue(values)

\* The values the attributes had when the hierarchy was built, in place of
\* their current ones.
CurrentValuesAtBuild(attrs) ==
    [i \in 1..Len(attrs) |->
        KindAttributes("full", IndexOf(attrs[i].controller[2]))[attrs[i].name].value]

\* attribute.get() for each bound attribute.
CurrentValues(attrs) ==
    [i \in 1..Len(attrs) |-> attributes[attrs[i].controller][attrs[i].name].value]

\* StatusSummaryAttributeIO.update(attr), attr the summary `name` of the top
\* controller.
SummaryUpdate(name) ==
    /\ IF ~_attributes[name].set
       THEN /\ res' = [op |-> "update", name |-> name, values |-> <<>>,
                       out |-> Raise(Exc("ValueError",
                           "Attributes must be set before using this IO"))]
            /\ UNCHANGED attributes
       ELSE LET values == CurrentValues(_attributes[name].attributes)
                value == Accumulate(Summaries[name].accumulator, values)
            IN  /\ attributes' = [attributes EXCEPT ![Top][name].value = value]
                /\ res' = [op |-> "update", name |-> name, values |-> values,
                           out |-> Return(JInt(value))]
    /\ UNCHANGED <<sub_controllers, commands, _attributes, command_cache>>
    /\ UNCHANGED <<cacheVars, fanVars, flatVars, splitVars, ioVars>>

\* The IO of an attribute of an HDF plugin sets it to a new value.
AttrUpdate(controller, name, value) ==
    /\ controller \in Controllers
    /\ Len(controller) = 3
    /\ name \in DOMAIN attributes[controller]
    /\ attributes[controller][name].value # value
    /\ attributes' = [attributes EXCEPT ![controller][name].value = value]
    /\ res' = NoRes
    /\ UNCHANGED <<sub_controllers, commands, _attributes, command_cache>>
    /\ UNCHANGED <<cacheVars, fanVars, flatVars, splitVars, ioVars>>

\* The path filter of the adapter's command fan outs.
CommandFilter == <<AnyIndex, StrStep("HDF")>>
CommandNames == {"start_writing", "stop_writing"}

RECURSIVE GetCommands(_, _)
\* The loop of _collect_commands: getattr on each controller in turn.
GetCommands(controllers, command_name) ==
    IF controllers = <<>>
    THEN Ok(<<>>)
    ELSE LET controller == Head(controllers)
         IN  IF command_name \notin commands[controller]
             THEN Err([type |-> "AttributeError", msg |-> command_name,
                       cause |-> "AttributeError", at |-> controller])
             ELSE LET rest == GetCommands(Tail(controllers), command_name)
                  IN  IF rest.ok THEN Ok(<<controller>> \o rest.val) ELSE rest

\* The collection that passes over the controllers without the command.
_collect_commands_skipping(self, path_filter, command_name) ==
    LET gen == _filter_sub_controllers(self, path_filter)
    IN  IF gen.exc # NoExc
        THEN Err(gen.exc)
        ELSE Ok(SelectSeq(gen.yielded,
                          LAMBDA controller : command_name \in commands[controller]))

\* The commands are known by the controllers they belong to.
_collect_commands(self, path_filter, command_name) ==
    LET gen == _filter_sub_controllers(self, path_filter)
    IN  IF gen.exc # NoExc
        THEN Err(gen.exc)
        ELSE GetCommands(gen.yielded, command_name)

\* FrameProcessorAdapterController.start_writing / stop_writing: the cached
\* property is computed on first use and kept when it did not raise; then
\* every collected command is called and the calls are gathered.
CommandFanOut(command_name) ==
    /\ Adapter \in Controllers
    /\ LET collected ==
               IF command_name \in DOMAIN command_cache
               THEN Ok(command_cache[command_name])
               ELSE _collect_commands(Adapter, CommandFilter, command_name)
       IN  IF collected.ok
           THEN /\ command_cache' =
                       [name \in DOMAIN command_cache \cup {command_name} |->
                           IF name = command_name THEN collected.val
                                                  ELSE command_cache[name]]
                /\ res' = [op |-> "command", name |-> command_name,
                           invoked |-> collected.val, out |-> Return(JNull)]
           ELSE /\ UNCHANGED command_cache
                /\ res' = [op |-> "command", name |-> command_name,
                           invoked |-> <<>>, out |-> Raise(collected.exc)]
    /\ UNCHANGED <<sub_controllers, attributes, commands, _attributes>>
    /\ UNCHANGED <<cacheVars, fanVars, flatVars, splitVars, ioVars>>

\* Path filters are resolved against hierarchies of every shape.
ResolveNext ==
    \E controller \in {Top, Adapter}, path_filter \in PathFilters :
        FilterSubControllers(controller, path_filter)

ResolveSpec == HierInit /\ [][ResolveNext]_vars

\* The summaries of the top controller are bound and read while the
\* attributes under them change, and the adapter's commands are called.
HierNext ==
    \/ initialise_summary_attributes(Top)
    \/ \E name \in DOMAIN Summaries : SummaryUpdate(name)
    \/ \E controller \in Controllers, name \in {"frames_written", "writing"} :
          \E value \in LeafValues(name) : AttrUpdate(controller, name, value)
    \/ \E command_name \in CommandNames : CommandFanOut(command_name)

HierSpec == HierInit /\ [][HierNext]_vars

----------------------------------------------------------------------------
(* Properties of the path filter *)

Prefix(a, b) == Len(a) <= Len(b) /\ SubSeq(b, 1, Len(a)) = a

\* What it is for a name to satisfy a step, said without the matcher: the
\* three patterns in use match the names that begin with a digit, with F,
\* and with FP.
Satisfies(step, name) ==
    CASE step.kind = "str" -> name = step.key
      [] step.kind = "tuple" -> \E i \in 1..Len(step.keys) : step.keys[i] = name
      [] step.source = "[0-9]+" -> Chars(name)[1] \in Digits
      [] step.source = "FP*" -> Chars(name)[1] = "F"
      [] step.source = "FP" ->
            Len(Chars(name)) >= 2 /\ SubSeq(Chars(name), 1, 2) = <<"F", "P">>

\* The controllers reached from `controller` by a chain of names, one per
\* step, each satisfying its step.
Chains(controller, path_filter) ==
    {node \in Controllers :
        /\ Prefix(controller, node)
        /\ Len(node) = Len(controller) + Len(path_filter)
        /\ \A i \in 1..Len(path_filter) :
              Satisfies(path_filter[i], node[Len(controller) + i])}

\* Where a step puts a name among the names it selects under `parent`: the
\* place in the tuple, or the place among the parent's sub controllers.
Rank(step, parent, name) ==
    IF step.kind = "tuple"
    THEN CHOOSE i \in 1..Len(step.keys) : step.keys[i] = name
    ELSE CHOOSE i \in 1..Len(sub_controllers[parent]) :
             sub_controllers[parent][i] = name

\* a comes before b in the depth-first walk.
Before(controller, path_filter, a, b) ==
    \E i \in 1..Len(path_filter) :
        LET d == Len(controller) + i
        IN  /\ SubSeq(a, 1, d - 1) = SubSeq(b, 1, d - 1)
            /\ Rank(path_filter[i], SubSeq(a, 1, d - 1), a[d])
                   < Rank(path_filter[i], SubSeq(a, 1, d - 1), b[d])

ResolvedAll ==
    /\ res.op = "filter"
    /\ res.out.exc = NoExc

ExactlyTheChains ==
    LET yielded == res.out.yielded
    IN  /\ {yielded[i] : i \in 1..Len(yielded)}
               = Chains(res.controller, res.path_filter)
        /\ \A i \in 1..Len(yielded) :
               Len(yielded[i]) = Len(res.controller) + Len(res.path_filter)
        /\ \A i, j \in 1..Len(yielded) :
               i < j => Before(res.controller, res.path_filter,
                               yielded[i], yielded[j])

\* C11: a resolution that ends without error has yielded exactly the
\* controllers reached by chains of names satisfying the steps, each
\* len(filter) below the root, in depth-first order of the steps, and has
\* left the hierarchy as it was.
C11_ResolvesChains ==
    [][(ResolvedAll' /\ res' # res) =>
           /\ ExactlyTheChains'
           /\ UNCHANGED <<sub_controllers, attributes, commands>>]_vars

\* Three steps resolved to two controllers, the tuple's order against the
\* order of the sub controllers.
C11_Witness ==
    /\ ResolvedAll
    /\ res.controller = Top
    /\ res.path_filter =
           <<FPStar, TupleStep(<<"1", "0">>), TupleStep(<<"HDF">>)>>
    /\ res.out.yielded = <<<<"FP", "1", "HDF">>, <<"FP", "0", "HDF">>>>

\* What a step fails to find under a controller: the absent keys of a str
\* or tuple step, the pattern when no sub controller matches it.
Missing(step, controller) ==
    CASE step.kind = "str" ->
            IF HasKey(controller, step.key) THEN {} ELSE {step.key}
      [] step.kind = "tuple" ->
            {step.keys[i] : i \in {j \in 1..Len(step.keys) :
                                       ~HasKey(controller, step.keys[j])}}
      [] OTHER ->
            IF \E i \in 1..Len(sub_controllers[controller]) :
                   Satisfies(step, sub_controllers[controller][i])
            THEN {}
            ELSE {step.source}

\* The places where a step of the filter matches nothing: a controller
\* reached by the steps before it, and what is missing there.
Unmatched(controller, path_filter) ==
    UNION { UNION { {[at |-> node, what |-> what] :
                        what \in Missing(path_filter[i], node)} :
                    node \in Chains(controller, SubSeq(path_filter, 1, i - 1)) } :
            i \in 1..Len(path_filter) }

\* C12: a resolution run to its end raises exactly when some step matches
\* nothing at a controller the steps before it reach, and then the error is
\* a ValueError naming a missing key or pattern and the controller, whatever
\* was yielded before.
C12_UnmatchedRaises ==
    res.op = "filter" =>
        LET unmatched == Unmatched(res.controller, res.path_filter)
            error == res.out.exc
        IN  /\ (unmatched # {}) <=> (error # NoExc)
            /\ error # NoExc =>
                   /\ error.type = "ValueError"
                   /\ [at |-> error.at, what |-> error.msg] \in unmatched

\* HDF was yielded under application 0 before it was found missing under
\* application 1.
C12_Witness ==
    /\ res.op = "filter"
    /\ res.path_filter = <<StrStep("FP"), AnyIndex, StrStep("HDF")>>
    /\ res.out.yielded = <<<<"FP", "0", "HDF">>>>
    /\ res.out.exc = NotFound("HDF", <<"FP", "1">>)

----------------------------------------------------------------------------
(* Properties of the status summaries *)

\* The controllers the summary's path filter resolves to, in order.
Resolved(name) == _filter_sub_controllers(Top, Summaries[name].path_filter)

\* C13: an update that returns has set the summary to its accumulator
\* applied to the values the named attribute has, at the time of the update,
\* on the controllers its path filter resolves to, one per controller in
\* the order of the resolution; sum and any are the accumulators in use.
C13_SummaryRecomputed ==
    [][(res'.op = "update" /\ res'.out.kind = "return") =>
         LET name == res'.name
             resolved == Resolved(name).yielded
             values == [i \in 1..Len(resolved) |->
                          attributes[resolved[i]][Summaries[name].attribute_name].value]
         IN  /\ Resolved(name).exc = NoExc
             /\ res'.values = values
             /\ res'.out.val = JInt(attributes'[Top][name].value)
             /\ name = "frames_written" =>
                    attributes'[Top][name].value = Sum(values)
             /\ name = "writing" =>
                    attributes'[Top][name].value =
                        (IF \A i \in 1..Len(values) : values[i] = 0 THEN 0 ELSE 1)
      ]_vars

\* The writing summary has been read as false after the one true leaf, that
\* of application 1, became false.
C13_Witness ==
    /\ res.op = "update"
    /\ res.name = "writing"
    /\ res.values = <<0, 0>>
    /\ res.out = Return(JInt(0))
    /\ attributes[Top]["frames_written"].value = 150

\* The summary cannot be bound in full: a step of its filter matches nothing
\* somewhere, or a controller the filter reaches has no attribute of the
\* name.
CannotBind(name) ==
    LET io_ref == Summaries[name]
    IN  \/ Unmatched(Top, io_ref.path_filter) # {}
        \/ \E node \in Chains(Top, io_ref.path_filter) :
               io_ref.attribute_name \notin DOMAIN attributes[node]

\* C14: a summary that cannot be bound in full is never bound: the
\* initialisation raises and leaves its attributes unset, and an update of it
\* raises; a summary that is bound is bound to the attribute of every
\* controller its filter reaches.
C14_BindAllOrNothing ==
    /\ \A name \in DOMAIN Summaries :
          IF CannotBind(name)
          THEN ~_attributes[name].set
          ELSE _attributes[name].set =>
                   {a.controller : a \in
                        {_attributes[name].attributes[i] :
                             i \in 1..Len(_attributes[name].attributes)}}
                       = Chains(Top, Summaries[name].path_filter)
    /\ (res.op = "initialise" /\ \E name \in DOMAIN Summaries : CannotBind(name))
           => res.out.kind = "raise"
    /\ (res.op = "update" /\ CannotBind(res.name))
           => /\ res.out.kind = "raise"
              /\ res.values = <<>>

\* The first summary is bound; the second, whose attribute is missing on a
\* plugin, is not, and its update has raised.
C14_Witness ==
    /\ _attributes["frames_written"].set
    /\ Len(_attributes["frames_written"].attributes) = 2
    /\ ~_attributes["writing"].set
    /\ res.op = "update"
    /\ res.name = "writing"
    /\ res.out.kind = "raise"

----------------------------------------------------------------------------
(* Properties of the command fan out *)

\* C18: when the filter resolves and every controller it reaches has the
\* command, the call invokes the command once on each of them; otherwise the
\* call raises and invokes it on none.
C18_CommandAllOrNothing ==
    res.op = "command" =>
        LET reached == Chains(Adapter, CommandFilter)
            invoked == {res.invoked[i] : i \in 1..Len(res.invoked)}
        IN  IF /\ Unmatched(Adapter, CommandFilter) = {}
               /\ \A node \in reached : res.name \in commands[node]
            THEN /\ res.out.kind = "return"
                 /\ invoked = reached
                 /\ Len(res.invoked) = Cardinality(reached)
            ELSE /\ res.out.kind = "raise"
                 /\ res.invoked = <<>>

\* stop_writing has raised for a plugin without it after start_writing was
\* invoked on both plugins.
C18_Witness ==
    /\ res.op = "command"
    /\ res.name = "stop_writing"
    /\ res.out.kind = "raise"
    /\ res.out.exc.type = "AttributeError"
    /\ "start_writing" \in DOMAIN command_cache
    /\ Len(command_cache["start_writing"]) = 2

----------------------------------------------------------------------------
(* ConfigFanAttributeIO: a value fanned out to several attributes *)

\* The attributes of the io_ref, by their place in its list.
NumTargets == 2
Targets == 1..NumTargets

\* The values written and read back; the datatype Int() starts at 0.
FanValues == {5, 10}
initial_value == 0

\* The task gather makes of one put: not made yet, waiting for its first
\* run, suspended in the write, made ready again with the write's outcome,
\* or ended.
NoChild == [pc |-> "none", io |-> "none"]
ChildAt(pc) == [pc |-> pc, io |-> "none"]
Finished(c) == c.pc \in {"none", "done", "failed"}

\* The callbacks the loop runs: the first step of a child, the wake up of a
\* suspended child, gather's done callback for a child, the wake up of the
\* sender.
StepOf(i) == [kind |-> "step", i |-> i]
WakeupOf(i) == [kind |-> "wakeup", i |-> i]
DoneCallbackOf(i) == [kind |-> "done_callback", i |-> i]
WakeSender == [kind |-> "wake_sender", i |-> 0]

NoGather == [state |-> "none"]
Pending(nfinished) ==
    [state |-> "pending", nfinished |-> nfinished, exc |-> NoExc]

\* The exception the put on target i raises.
PutError(i) == [type |-> "PutError", msg |-> "put failed", cause |-> "None", at |-> i]

FanInit ==
    /\ CacheInit
    /\ NoHier
    /\ NoFlat
    /\ NoSplit
    /\ NoIO
    /\ target_value = [i \in Targets |-> initial_value]
    /\ put_calls = [i \in Targets |-> <<>>]
    /\ child = [i \in Targets |-> NoChild]
    /\ gather = NoGather
    /\ ready = <<>>
    /\ sender = [pc |-> "idle", value |-> 0]
    /\ fan = [op |-> "none"]

\* send up to the await: the put coroutines are made in list order, gather
\* makes a task of each, which queues its first step, and the sender
\* suspends on the future gather returns.
FanSend(value) ==
    /\ sender.pc = "idle"
    /\ ready = <<>>
    /\ \A i \in Targets : Finished(child[i])
    /\ sender' = [pc |-> "awaiting", value |-> value]
    /\ child' = [i \in Targets |-> ChildAt("ready")]
    /\ put_calls' = [i \in Targets |-> <<>>]
    /\ gather' = Pending(0)
    /\ ready' = [i \in Targets |-> StepOf(i)]
    /\ fan' = [op |-> "none"]
    /\ UNCHANGED target_value
    /\ UNCHANGED <<cacheVars, hierVars, flatVars, splitVars, ioVars>>

\* The loop runs the first step of a child: attribute.put(value,
\* sync_setpoint=True) starts and suspends in its write, returns or raises.
RunStep(i, outcome) ==
    /\ ready # <<>>
    /\ Head(ready) = StepOf(i)
    /\ put_calls' = [put_calls EXCEPT ![i] = Append(@, sender.value)]
    /\ IF outcome = "suspend"
       THEN /\ child' = [child EXCEPT ![i] = ChildAt("putting")]
            /\ ready' = Tail(ready)
       ELSE /\ child' = [child EXCEPT ![i] =
                            ChildAt(IF outcome = "return" THEN "done" ELSE "failed")]
            /\ ready' = Append(Tail(ready), DoneCallbackOf(i))
    /\ fan' = [op |-> "none"]
    /\ UNCHANGED <<target_value, gather, sender>>
    /\ UNCHANGED <<cacheVars, hierVars, flatVars, splitVars, ioVars>>

\* The write a child is suspended in ends: the child is made ready.
WriteEnds(i, io) ==
    /\ child[i].pc = "putting"
    /\ child' = [child EXCEPT ![i] = [pc |-> "woken", io |-> io]]
    /\ ready' = Append(ready, WakeupOf(i))
    /\ fan' = [op |-> "none"]
    /\ UNCHANGED <<target_value, put_calls, gather, sender>>
    /\ UNCHANGED <<cacheVars, hierVars, flatVars, splitVars, ioVars>>

\* The loop resumes a child: its put returns, or raises what the write raised.
RunWakeup(i) ==
    /\ ready # <<>>
    /\ Head(ready) = WakeupOf(i)
    /\ child' = [child EXCEPT ![i] =
                    ChildAt(IF child[i].io = "ok" THEN "done" ELSE "failed")]
    /\ ready' = Append(Tail(ready), DoneCallbackOf(i))
    /\ fan' = [op |-> "none"]
    /\ UNCHANGED <<target_value, put_calls, gather, sender>>
    /\ UNCHANGED <<cacheVars, hierVars, flatVars, splitVars, ioVars>>

\* A gather that cancels the children still running when one has failed.
OnChildFailedCancelOthers(children, i) ==
    [j \in Targets |-> IF Finished(children[j]) THEN children[j]
                                               ELSE ChildAt("cancelled")]

\* What gather does to its children when child i has failed: nothing.
OnChildFailed(children, i) == children

\* The loop runs gather's done callback for a child (return_exceptions is
\* False): the first failure ends the future with that exception, the last
\* success ends it with the results, and ending it queues the sender.
RunDoneCallback(i) ==
    /\ ready # <<>>
    /\ Head(ready) = DoneCallbackOf(i)
    /\ IF gather.state # "pending"
       THEN /\ UNCHANGED <<gather, child>>
            /\ ready' = Tail(ready)
       ELSE IF child[i].pc = "failed"
            THEN /\ gather' = [state |-> "failed",
                               nfinished |-> gather.nfinished + 1,
                               exc |-> PutError(i)]
                 /\ child' = OnChildFailed(child, i)
                 /\ ready' = Append(Tail(ready), WakeSender)
            ELSE /\ UNCHANGED child
                 /\ IF gather.nfinished + 1 = NumTargets
                    THEN /\ gather' = [state |-> "done",
                                       nfinished |-> gather.nfinished + 1,
                                       exc |-> NoExc]
                         /\ ready' = Append(Tail(ready), WakeSender)
                    ELSE /\ gather' = Pending(gather.nfinished + 1)
                         /\ ready' = Tail(ready)
    /\ fan' = [op |-> "none"]
    /\ UNCHANGED <<target_value, put_calls, sender>>
    /\ UNCHANGED <<cacheVars, hierVars, flatVars, splitVars, ioVars>>

\* The loop resumes the sender: the await returns or raises, and so does send.
SenderResumes ==
    /\ ready # <<>>
    /\ Head(ready) = WakeSender
    /\ ready' = Tail(ready)
    /\ sender' = [sender EXCEPT !.pc = "idle"]
    /\ fan' = [op |-> "send", value |-> sender.value,
               out |-> IF gather.state = "failed" THEN Raise(gather.exc)
                                                  ELSE Return(JNull)]
    /\ UNCHANGED <<target_value, put_calls, child, gather>>
    /\ UNCHANGED <<cacheVars, hierVars, flatVars, splitVars, ioVars>>

\* attr.datatype.all_equal(values): every value equals the first.
all_equal(values) == \A i \in 1..Len(values) : values[1] = values[i]

\* The update that takes the first value whether or not the others agree.
FanValueFirst(values) == values[1]

\* The value update gives the fan out attribute.
FanValue(values) ==
    IF all_equal(values) THEN values[1] ELSE initial_value

\* ConfigFanAttributeIO.update: attribute.get() on every attribute, then
\* attr.update of the common value or of the datatype's initial value.
FanUpdate ==
    /\ fan' = [op |-> "update", values |-> target_value,
               out |-> Return(JInt(FanValue(target_value)))]
    /\ UNCHANGED <<target_value, put_calls, child, gather, ready, sender>>
    /\ UNCHANGED <<cacheVars, hierVars, flatVars, splitVars, ioVars>>

\* The IO of a target attribute reads a new value for it.
TargetUpdate(i, value) ==
    /\ target_value[i] # value
    /\ target_value' = [target_value EXCEPT ![i] = value]
    /\ fan' = [op |-> "none"]
    /\ UNCHANGED <<put_calls, child, gather, ready, sender>>
    /\ UNCHANGED <<cacheVars, hierVars, flatVars, splitVars, ioVars>>

FanNext ==
    \/ \E value \in FanValues : FanSend(value)
    \/ \E i \in Targets, outcome \in {"suspend", "return", "raise"} :
          RunStep(i, outcome)
    \/ \E i \in Targets, io \in {"ok", "error"} : WriteEnds(i, io)
    \/ \E i \in Targets : RunWakeup(i)
    \/ \E i \in Targets : RunDoneCallback(i)
    \/ SenderResumes
    \/ FanUpdate
    \/ \E i \in Targets, value \in FanValues : TargetUpdate(i, value)

FanSpec == FanInit /\ [][FanNext]_vars

----------------------------------------------------------------------------
(* Properties of the config fan out *)

SendEnded == fan.op = "send"

\* C15: when send ends, put has been called once on every target, with the
\* value sent; a child whose put has returned stays so until the next send,
\* and the failure of one child leaves the others as they are: none is
\* cancelled or held back.
C15_OneWriteEach ==
    /\ [](SendEnded => \A i \in Targets : put_calls[i] = <<fan.value>>)
    /\ [][/\ \A i \in Targets :
                (child[i].pc = "done" /\ sender'.pc = sender.pc) =>
                    child'[i].pc = "done"
          /\ (gather.state = "pending" /\ gather'.state = "failed") =>
                child' = child
          /\ \A i \in Targets :
                child[i].pc \in {"ready", "putting", "woken"} =>
                    child'[i].pc \in {"ready", "putting", "woken", "done",
                                      "failed"}]_vars

\* send has raised the failure of the first target; the put on the second
\* has returned.
C15_Witness ==
    /\ SendEnded
    /\ fan.out = Raise(PutError(1))
    /\ child[2].pc = "done"
    /\ \A i \in Targets : put_calls[i] = <<fan.value>>

\* C16: when send ends, the put on every target has ended.
C16_EndsAfterAllAttempts ==
    SendEnded => \A i \in Targets : child[i].pc \in {"done", "failed"}

\* C17: update gives the fan out attribute the common value of the targets
\* when they agree and the datatype's initial value, which none of them
\* has, when two of them differ; it leaves the targets and the sends alone.
C17_CommonOrDefault ==
    [][fan'.op = "update" =>
         /\ fan'.values = target_value
         /\ (\A i, j \in Targets : target_value[i] = target_value[j])
                => fan'.out = Return(JInt(target_value[1]))
         /\ (\E i, j \in Targets : target_value[i] # target_value[j])
                => fan'.out = Return(JInt(initial_value))
         /\ UNCHANGED <<target_value, put_calls, child, gather, ready, sender>>
      ]_vars

\* The targets read 10 and 5 and the update has given 0.
C17_Witness ==
    /\ fan.op = "update"
    /\ fan.values[1] = 10
    /\ fan.values[2] = 5
    /\ fan.out = Return(JInt(0))

----------------------------------------------------------------------------
(* The flattener: create_odin_parameters (util.py) *)

\* The longest JSON array in the metadata.
MaxList == 2

JBool(b) == [kind |-> "bool", val |-> b]

\* A JSON object as the flattener sees it: its items in dict order.
JObject(pairs) == [kind |-> "dict", pairs |-> pairs]

ObjectKeys(obj) == {obj.pairs[i][1] : i \in 1..Len(obj.pairs)}

\* obj[key]
ObjectGet(obj, key) ==
    obj.pairs[CHOOSE i \in 1..Len(obj.pairs) : obj.pairs[i][1] = key][2]

\* x in a list
In(x, list) == \E i \in 1..Len(list) : list[i] = x

is_metadata_object(v) ==
    /\ v.kind = "dict"
    /\ "writeable" \in ObjectKeys(v)
    /\ "type" \in ObjectKeys(v)
    /\ "value" \in ObjectKeys(v)

\* type(parameter).__name__
TypeName(parameter) ==
    CASE parameter.kind = "int" -> "int"
      [] parameter.kind = "str" -> "str"
      [] parameter.kind = "bool" -> "bool"
      [] parameter.kind = "null" -> "NoneType"
      [] parameter.kind = "list" -> "list"
      [] parameter.kind = "dict" -> "dict"

\* The fields of OdinParameterMetadata and the JSON kinds each accepts.
OdinParameterMetadata ==
    [value |-> {"int", "str", "bool", "null", "list", "dict"},
     writeable |-> {"bool"},
     type |-> {"str"},
     allowed_values |-> {"dict", "null"},
     name |-> {"str", "null"},
     description |-> {"str", "null"},
     units |-> {"str", "null"},
     display_precision |-> {"int", "null"}]

\* Literal["float", "int", "bool", "str"]
TypeLiterals == {"float", "int", "bool", "str"}

ValidationError == Exc("ValidationError", "OdinParameterMetadata")

\* OdinParameterMetadata.model_validate(obj): extra keys are forbidden, the
\* three required fields must be there, every field must have an accepted
\* kind and type must be one of the literals.
model_validate(obj) ==
    IF /\ ObjectKeys(obj) \subseteq DOMAIN OdinParameterMetadata
       /\ {"value", "writeable", "type"} \subseteq ObjectKeys(obj)
       /\ \A k \in ObjectKeys(obj) :
              ObjectGet(obj, k).kind \in OdinParameterMetadata[k]
       /\ ObjectGet(obj, "type").val \in TypeLiterals
    THEN Ok([value |-> ObjectGet(obj, "value"),
             writeable |-> ObjectGet(obj, "writeable").val,
             type |-> ObjectGet(obj, "type").val,
             units |-> IF "units" \in ObjectKeys(obj)
                       THEN ObjectGet(obj, "units") ELSE JNull])
    ELSE Err(ValidationError)

infer_metadata(parameter, uri) ==
    model_validate(JObject(<< <<"value", parameter>>,
                              <<"type", JStr(TypeName(parameter))>>,
                              <<"writeable", JBool(In("config", uri))>> >>))

\* The loop of expand_list_parameter and expand_dict_parameter from entry i
\* on: a generator that yields (sub_node_path, metadata) per entry and ends
\* with the first ValidationError infer_metadata raises.
RECURSIVE ExpandFrom(_, _, _)
ExpandFrom(entries, path, i) ==
    IF i > Len(entries)
    THEN Gen(<<>>, NoExc)
    ELSE LET sub_node_path == Append(path, entries[i][1])
             inferred == infer_metadata(entries[i][2], sub_node_path)
         IN  IF ~inferred.ok
             THEN Gen(<<>>, inferred.exc)
             ELSE LET rest == ExpandFrom(entries, path, i + 1)
                  IN  Gen(<< <<sub_node_path, inferred.val>> >> \o rest.yielded,
                          rest.exc)

\* enumerate(values), each index as the path segment str(idx) it becomes
expand_list_parameter(values, path) ==
    ExpandFrom([i \in 1..Len(values) |-> <<IndexName(i - 1), values[i]>>],
               path, 1)

expand_dict_parameter(values, path) == ExpandFrom(values.pairs, path, 1)

\* WalkLeaf without the test for "config": every raw list is expanded.
WalkLeafExpandsAll(node_value, node_path) ==
    LET One(validated) ==
            IF validated.ok THEN << <<node_path, validated.val>> >> ELSE <<>>
    IN  IF is_metadata_object(node_value)
        THEN LET value == ObjectGet(node_value, "value")
             IN  IF value.kind = "list"
                 THEN expand_list_parameter(value.items, node_path).yielded
                 ELSE IF value.kind = "dict"
                 THEN expand_dict_parameter(value, node_path).yielded
                 ELSE One(model_validate(node_value))
        ELSE IF node_value.kind = "list"
        THEN expand_list_parameter(node_value.items, node_path).yielded
        ELSE One(infer_metadata(node_value, node_path))

\* The leaf branch of _walk_odin_metadata for one node: what the try block
\* yields; a ValidationError ends it and is logged, not raised, and what an
\* expansion yielded before the error stays yielded.
WalkLeaf(node_value, node_path) ==
    LET One(validated) ==
            IF validated.ok THEN << <<node_path, validated.val>> >> ELSE <<>>
        \* str(node_value) of a list: the text is held as the list it prints
        Str(list) == JStr(list.items)
    IN  IF is_metadata_object(node_value)
        THEN LET value == ObjectGet(node_value, "value")
             IN  IF value.kind = "list"
                 THEN expand_list_parameter(value.items, node_path).yielded
                 ELSE IF value.kind = "dict"
                 THEN expand_dict_parameter(value, node_path).yielded
                 ELSE One(model_validate(node_value))
        ELSE IF node_value.kind = "list"
        THEN IF In("config", node_path)
             THEN expand_list_parameter(node_value.items, node_path).yielded
             ELSE One(infer_metadata(Str(node_value), node_path))
        ELSE One(infer_metadata(node_value, node_path))

\* The loop over tree.items() from item i on, and the loop over the elements
\* of a list of dicts from element i on.
RECURSIVE WalkItems(_, _, _)
RECURSIVE WalkElements(_, _, _)
WalkItems(tree, path, i) ==
    IF i > Len(tree.pairs)
    THEN <<>>
    ELSE LET node_name == tree.pairs[i][1]
             node_value == tree.pairs[i][2]
             node_path == Append(path, node_name)
             yielded ==
                 IF In("command", node_path)
                 THEN <<>>
                 ELSE IF node_value.kind = "dict" /\ ~is_metadata_object(node_value)
                 THEN WalkItems(node_value, node_path, 1)
                 ELSE IF /\ node_value.kind = "list"
                         /\ node_value.items # <<>>
                         /\ \A m \in 1..Len(node_value.items) :
                                node_value.items[m].kind = "dict"
                 THEN WalkElements(node_value.items, node_path, 1)
                 ELSE WalkLeaf(node_value, node_path)
         IN  yielded \o WalkItems(tree, path, i + 1)

WalkElements(elements, node_path, i) ==
    IF i > Len(elements)
    THEN <<>>
    ELSE WalkItems(elements[i], Append(node_path, IndexName(i - 1)), 1)
             \o WalkElements(elements, node_path, i + 1)

_walk_odin_metadata(tree, path) == WalkItems(tree, path, 1)

OdinParameter(uri, md) == [uri |-> uri, metadata |-> md]

create_odin_parameters(md) ==
    LET walked == _walk_odin_metadata(md, <<>>)
    IN  [i \in 1..Len(walked) |-> OdinParameter(walked[i][1], walked[i][2])]

\* The metadata the flattener is given: one item, a leaf or a branch over a
\* leaf, at times followed by a second item.
NodeNames == {"status", "config", "command", "name", "description", "frames"}

RECURSIVE ListsOf(_, _)
ListsOf(elements, n) ==
    IF n = 0 THEN {<<>>}
    ELSE LET shorter == ListsOf(elements, n - 1)
         IN  shorter \cup {Append(l, e) : l \in shorter, e \in elements}

Lists == {JList(l) : l \in ListsOf({JInt(1), JNull}, MaxList)}

MetadataObjects ==
    LET Scalars == {JInt(1), JStr("foo"), JBool(TRUE), JNull}
        Objects ==
            {JObject(<< <<"command", JInt(1)>> >>),
             JObject(<< <<"gain", JInt(1)>>, <<"command", JStr("foo")>> >>),
             JObject(<< <<"name", JStr("foo")>>, <<"gain", JNull>>,
                        <<"offset", JInt(1)>> >>)}
    IN  {JObject(<< <<"value", value>>, <<"writeable", JBool(writeable)>>,
                    <<"type", JStr(type)>> >> \o extra) :
            value \in Scalars \cup Lists \cup Objects,
            writeable \in BOOLEAN,
            type \in {"int", "list"},
            extra \in {<<>>, << <<"units", JStr("s")>> >>,
                       << <<"shape", JInt(1)>> >>}}

Leaves ==
    {JInt(1), JStr("foo"), JBool(TRUE), JNull} \cup Lists \cup MetadataObjects

MetadataTrees ==
    LET Frames ==
            JObject(<< <<"value", JInt(7)>>, <<"writeable", JBool(FALSE)>>,
                       <<"type", JStr("int")>> >>)
        Branches ==
            {JObject(<< <<k, leaf>> >>) : k \in NodeNames, leaf \in Leaves}
            \cup {JList([i \in 1..n |-> JObject(<< <<k, leaf>> >>)]) :
                      n \in 1..MaxList, k \in {"command", "name", "frames"},
                      leaf \in Leaves}
    IN  {JObject(<< <<k, node>> >> \o more) :
            k \in NodeNames, node \in Leaves,
            more \in {<<>>, << <<"hdf", Frames>> >>}}
        \cup {JObject(<< <<k, node>> >>) :
                  k \in {"status", "config", "command"}, node \in Branches}

FlatInit ==
    /\ CacheInit
    /\ NoHier
    /\ NoFan
    /\ NoSplit
    /\ NoIO
    /\ metadata \in MetadataTrees
    /\ parameters = [op |-> "none", again |-> FALSE]

\* A call of create_odin_parameters(metadata), the first or a second one on
\* the same metadata; the walk reads the tree and builds new lists, it
\* assigns to nothing the caller holds.
CreateOdinParameters ==
    /\ parameters.op = "none" \/ ~parameters.again
    /\ parameters' = [op |-> "create_odin_parameters",
                      out |-> create_odin_parameters(metadata),
                      again |-> parameters.op # "none",
                      before |-> IF parameters.op = "none" THEN <<>>
                                 ELSE parameters.out]
    /\ UNCHANGED <<metadata, cacheVars, hierVars, fanVars, splitVars, ioVars>>

FlatNext == CreateOdinParameters

FlatSpec == FlatInit /\ [][FlatNext]_vars

----------------------------------------------------------------------------
(* Properties of the flattener *)

Returned == parameters.op = "create_odin_parameters"

\* C19: no parameter create_odin_parameters returns has the segment
\* "command" anywhere in its uri, the parameters made by expanding a
\* metadata object whose value is a list or a dict included.
C19_NoCommandSegment ==
    Returned =>
        \A i \in 1..Len(parameters.out) : ~In("command", parameters.out[i].uri)

\* C20: no parameter create_odin_parameters returns has a uri whose last
\* segment is "name" or "description".
C20_NoNameOrDescription ==
    Returned =>
        \A i \in 1..Len(parameters.out) :
            LET uri == parameters.out[i].uri
            IN  uri[Len(uri)] \notin {"name", "description"}

\* The tree as the walk divides it: a dict that is not a metadata object and
\* a non-empty list of dicts are branches, every other node is a leaf.
IsBranch(node) ==
    \/ node.kind = "dict" /\ ~is_metadata_object(node)
    \/ /\ node.kind = "list"
       /\ node.items # <<>>
       /\ \A m \in 1..Len(node.items) : node.items[m].kind = "dict"

\* The leaves under a node, each with its path.
RECURSIVE LeavesUnder(_, _)
LeavesUnder(node, path) ==
    IF ~IsBranch(node)
    THEN {[path |-> path, node |-> node]}
    ELSE IF node.kind = "dict"
    THEN UNION {LeavesUnder(node.pairs[i][2], Append(path, node.pairs[i][1])) :
                    i \in 1..Len(node.pairs)}
    ELSE UNION {LeavesUnder(node.items[i], Append(path, IndexName(i - 1))) :
                    i \in 1..Len(node.items)}

\* The leaves the flattener is to turn into parameters: those not under a
\* "command" segment.
FlatLeaves == {l \in LeavesUnder(metadata, <<>>) : ~In("command", l.path)}

\* The entries of an array or object value, each with the segment it adds.
Entries(value) ==
    IF value.kind = "list"
    THEN [i \in 1..Len(value.items) |-> <<IndexName(i - 1), value.items[i]>>]
    ELSE value.pairs

\* Metadata objects that are valid but for their value being an array or an
\* object.
Expandable(node) ==
    /\ is_metadata_object(node)
    /\ ObjectGet(node, "value").kind \in {"list", "dict"}
    /\ model_validate(node).ok

\* The positions of the returned list holding a parameter with this uri.
At(uri) == {i \in 1..Len(parameters.out) : parameters.out[i].uri = uri}

\* C21: a metadata object whose value is an array or an object gives one
\* parameter per index or key, with the element as its value and with the
\* writeable flag and the type of the metadata object.
C21_OuterPropagated ==
    Returned =>
        \A l \in FlatLeaves :
            Expandable(l.node) =>
                LET entries == Entries(ObjectGet(l.node, "value"))
                IN  \A e \in 1..Len(entries) :
                        /\ Cardinality(At(Append(l.path, entries[e][1]))) = 1
                        /\ \A i \in At(Append(l.path, entries[e][1])) :
                               LET md == parameters.out[i].metadata
                               IN  /\ md.value = entries[e][2]
                                   /\ md.writeable = ObjectGet(l.node, "writeable").val
                                   /\ md.type = ObjectGet(l.node, "type").val

\* The positions of the returned list holding a parameter one segment below
\* this path.
Below(path) ==
    {i \in 1..Len(parameters.out) :
        /\ Len(parameters.out[i].uri) = Len(path) + 1
        /\ SubSeq(parameters.out[i].uri, 1, Len(path)) = path}

Supported(value) == value.kind \in {"int", "str", "bool"}

Expands(l) ==
    \/ /\ is_metadata_object(l.node)
       /\ ObjectGet(l.node, "value").kind \in {"list", "dict"}
    \/ l.node.kind = "list" /\ In("config", l.path)

\* The uris of the schema-valid leaves and expanded elements of a leaf, an
\* expanded leaf counted per element.
ValidUris(l) ==
    IF Expands(l)
    THEN LET entries == Entries(IF l.node.kind = "list" THEN l.node
                                ELSE ObjectGet(l.node, "value"))
         IN  {Append(l.path, entries[e][1]) :
                  e \in {e \in 1..Len(entries) : Supported(entries[e][2])}}
    ELSE IF is_metadata_object(l.node)
    THEN IF model_validate(l.node).ok THEN {l.path} ELSE {}
    ELSE IF l.node.kind = "list" \/ Supported(l.node) THEN {l.path} ELSE {}

\* C24: a leaf or an expanded element that fails validation is left out and
\* nothing is raised; every other schema-valid leaf or element is returned,
\* the elements that follow a failing one in the same array or object
\* included.
C24_OnlyInvalidOmitted ==
    Returned =>
        \A l \in FlatLeaves :
            (is_metadata_object(l.node) => model_validate(l.node).ok) =>
                \A uri \in ValidUris(l) : At(uri) # {}

\* Trees without a "command", "name" or "description" segment, whether a key
\* of a branch or of an expanded object.
Reserved == {"command", "name", "description"}
Plain ==
    \A l \in LeavesUnder(metadata, <<>>) :
        /\ \A i \in 1..Len(l.path) : l.path[i] \notin Reserved
        /\ is_metadata_object(l.node) /\ ObjectGet(l.node, "value").kind = "dict" =>
               ObjectKeys(ObjectGet(l.node, "value")) \cap Reserved = {}

\* The children of a node in the order the walk visits them.
Kids(node) ==
    IF IsBranch(node)
    THEN IF node.kind = "dict" THEN node.pairs ELSE Entries(node)
    ELSE IF is_metadata_object(node) THEN Entries(ObjectGet(node, "value"))
    ELSE Entries(node)

\* uri u comes before uri v in the depth first, key order walk of the node.
RECURSIVE ComesFirst(_, _, _)
ComesFirst(node, u, v) ==
    LET kids == Kids(node)
        Pos(seg) == CHOOSE k \in 1..Len(kids) : kids[k][1] = seg
    IN  IF u[1] = v[1]
        THEN ComesFirst(kids[Pos(u[1])][2], Tail(u), Tail(v))
        ELSE Pos(u[1]) < Pos(v[1])

\* C23: for a tree without command branches and name or description leaves
\* the number of parameters returned is the number of its schema-valid
\* leaves, expanded leaves counted per element; the list is in depth first
\* key order; a second call on the same tree returns an equal list; the
\* tree is not modified.
C23_CountOrderIdempotence ==
    /\ [](Returned /\ Plain =>
            /\ Len(parameters.out) =
                   Cardinality(UNION {ValidUris(l) : l \in FlatLeaves})
            /\ \A i, j \in 1..Len(parameters.out) :
                   i < j => ComesFirst(metadata, parameters.out[i].uri,
                                       parameters.out[j].uri)
            /\ parameters.again => parameters.out = parameters.before)
    /\ [][metadata' = metadata]_vars

----------------------------------------------------------------------------
(* FrameProcessorController.initialise and the sub controllers it creates *)

\* The most parameters handed to the controller.
MaxParams == 3

\* The uris of the parameters of application "0", in the flattener's order.
Uris ==
    << <<"0", "config", "ctrl_endpoint">>,
       <<"0", "config", "hdf", "file_path">>,
       <<"0", "config", "offset", "offset_adjustment">>,
       <<"0", "status", "hdf", "acquisition_id">>,
       <<"0", "status", "hdf", "dataset", "compressed_size", "compression">>,
       <<"0", "status", "hdf", "file_path">>,
       <<"0", "status", "hdf", "frames_written">>,
       <<"0", "status", "hdf", "name">> >>

\* What connection.get returns for status/plugins/names.
PluginResponses ==
    {JDict([names |-> JList(names)]) :
         names \in {<<>>, <<JStr("hdf")>>, <<JStr("hdf"), JStr("offset")>>,
                    <<JStr("hdf"), JInt(1)>>}}
    \cup {EmptyDict}

\* plugin.upper()
Upper(plugin) ==
    CASE plugin = "hdf" -> "HDF" [] plugin = "offset" -> "OFFSET"

\* sequence[k:]
Slice(sequence, k) == SubSeq(sequence, k + 1, Len(sequence))

\* OdinParameter.path with the fallback left out: always the uri.
PathUriOnly(parameter) == parameter.uri

\* OdinParameter.path: `self._path or self.uri`
Path(parameter) ==
    IF parameter._path # <<>> THEN parameter._path ELSE parameter.uri

\* OdinParameter.name: "_".join(self.path), held as separator and segments
OdinName(parameter) == [join |-> "_", of |-> Path(parameter)]

\* partition(elements, predicate), the predicate given as the set of the
\* elements it accepts: the accepted and the rest, each in the order of
\* elements.
partition(elements, accepted) ==
    <<SelectSeq(elements, LAMBDA e : e \in accepted),
      SelectSeq(elements, LAMBDA e : e \notin accepted)>>

\* The dataset test looking at the first segment of the path only.
is_dataset_first(parameter) == Path(parameter)[1] = "dataset"

\* `"dataset" in p.path`
is_dataset(parameter) == In("dataset", Path(parameter))

\* Parameters whose uri ends in "name" or "description" are removed.
remove_metadata_fields_paths(ids) ==
    SelectSeq(ids, LAMBDA i :
        LET uri == odin_parameters[i].uri
        IN  uri[Len(uri)] \notin {"name", "description"})

SplitInit ==
    /\ CacheInit
    /\ NoHier
    /\ NoFan
    /\ NoFlat
    /\ NoIO
    /\ \E chosen \in SUBSET (1..Len(Uris)) :
           /\ Cardinality(chosen) <= MaxParams
           /\ odin_parameters =
                  [i \in chosen |-> [uri |-> Uris[i], _path |-> <<>>]]
           /\ held = (Top :> SelectSeq([i \in 1..Len(Uris) |-> i],
                                        LAMBDA i : i \in chosen))
    /\ added = (Top :> <<>>)
    /\ fpc = [pc |-> "new", plugins |-> <<>>]

\* FrameProcessorController.initialise up to _create_plugin_sub_controllers:
\* the plugin names are read, the metadata fields removed, and every
\* parameter loses its index and gets its reduced path.
Initialise(plugins_response) ==
    /\ fpc.pc = "new"
    /\ IF /\ "names" \in DOMAIN plugins_response.items
          /\ plugins_response.items["names"].kind = "list"
          /\ \A k \in 1..Len(plugins_response.items["names"].items) :
                 plugins_response.items["names"].items[k].kind = "str"
       THEN LET plugin_list == plugins_response.items["names"].items
                kept == remove_metadata_fields_paths(held[Top])
            IN  /\ held' = [held EXCEPT ![Top] = kept]
                /\ odin_parameters' =
                       [i \in DOMAIN odin_parameters |->
                           IF In(i, kept)
                           THEN [uri |-> Slice(odin_parameters[i].uri, 1),
                                 _path |-> Slice(odin_parameters[i].uri, 2)]
                           ELSE odin_parameters[i]]
                /\ fpc' = [pc |-> "plugins",
                           plugins |-> [k \in 1..Len(plugin_list) |->
                                           plugin_list[k].val]]
       ELSE /\ fpc' = [pc |-> "raised", plugins |-> <<>>]
            /\ UNCHANGED <<held, odin_parameters>>
    /\ UNCHANGED <<added, cacheVars, hierVars, fanVars, flatVars, ioVars>>

\* One turn of the loop of _create_plugin_sub_controllers, with the
\* initialise of the plugin controller it awaits: the dataset parameters go
\* to a dataset controller, which reduces their paths and adds their
\* attributes, then the plugin controller does the same with its own.
CreatePluginSubController ==
    /\ fpc.pc = "plugins"
    /\ fpc.plugins # <<>>
    /\ LET plugin == Head(fpc.plugins)
           InPlugin(i) == Path(odin_parameters[i])[1] = plugin
           IsDataset(i) == is_dataset(odin_parameters[i])
           split == partition(held[Top],
                              {i \in DOMAIN odin_parameters : InPlugin(i)})
           any_dataset == \E k \in 1..Len(split[1]) : IsDataset(split[1][k])
           inner == IF any_dataset
                    THEN partition(split[1],
                                   {i \in DOMAIN odin_parameters : IsDataset(i)})
                    ELSE << <<>>, split[1]>>
           reduced ==
               [i \in DOMAIN odin_parameters |->
                   LET parameter == odin_parameters[i]
                   IN  IF In(i, inner[1])
                       THEN [parameter EXCEPT !._path = Slice(parameter.uri, 3)]
                       ELSE IF In(i, inner[2])
                       THEN IF parameter.uri = <<"status", "hdf", "file_path">>
                            THEN [parameter EXCEPT !._path = <<"current_file_path">>]
                            ELSE IF parameter.uri = <<"status", "hdf", "acquisition_id">>
                            THEN [parameter EXCEPT
                                      !._path = <<"current_acquisition_id">>]
                            ELSE [parameter EXCEPT
                                      !._path = Slice(Path(parameter), 1)]
                       ELSE parameter]
           Names(ids) == [k \in 1..Len(ids) |-> OdinName(reduced[ids[k]])]
           dataset == IF inner[1] # <<>>
                      THEN <<Upper(plugin), "DS">> :> inner[1]
                      ELSE <<>>
       IN  /\ odin_parameters' = reduced
           /\ held' = (Top :> split[2]) @@ (<<Upper(plugin)>> :> inner[2])
                          @@ dataset @@ held
           /\ added' = (<<Upper(plugin)>> :> Names(inner[2]))
                           @@ [c \in DOMAIN dataset |-> Names(dataset[c])]
                           @@ added
           /\ fpc' = [fpc EXCEPT !.plugins = Tail(fpc.plugins)]
    /\ UNCHANGED <<cacheVars, hierVars, fanVars, flatVars, ioVars>>

\* The end of FrameProcessorController.initialise: an attribute for each
\* parameter the controller still holds.
CreateAttributes ==
    /\ fpc.pc = "plugins"
    /\ fpc.plugins = <<>>
    /\ added' = [added EXCEPT ![Top] =
                     [k \in 1..Len(held[Top]) |->
                         OdinName(odin_parameters[held[Top][k]])]]
    /\ fpc' = [fpc EXCEPT !.pc = "done"]
    /\ UNCHANGED <<odin_parameters, held, cacheVars, hierVars, fanVars,
                   flatVars, ioVars>>

SplitNext ==
    \/ \E plugins_response \in PluginResponses : Initialise(plugins_response)
    \/ CreatePluginSubController
    \/ CreateAttributes

SplitSpec == SplitInit /\ [][SplitNext]_vars

----------------------------------------------------------------------------
(* Properties of the frame processor's parameters *)

\* The step is the index stripping of FrameProcessorController.initialise.
IndexStripped == fpc.pc = "new" /\ fpc'.pc = "plugins"

\* Every attribute a controller has added is named by joining with "_" the
\* reduced path of its parameter, or the uri while the reduced path is empty.
NamedByPath ==
    \A c \in DOMAIN added :
        added[c] # <<>> =>
            /\ Len(added[c]) = Len(held[c])
            /\ \A k \in 1..Len(held[c]) :
                   LET parameter == odin_parameters[held[c][k]]
                   IN  added[c][k] =
                           [join |-> "_",
                            of |-> IF parameter._path = <<>>
                                   THEN parameter.uri
                                   ELSE parameter._path]

Kept ==
    {i \in DOMAIN odin_parameters :
         LET uri == odin_parameters[i].uri
         IN  uri[Len(uri)] \notin {"name", "description"}}

\* The reduced path a parameter has before the splitting: its uri without
\* "status" or "config".
Stripped(i) == Slice(odin_parameters[i].uri, 1)

\* The controller the splitting gives a parameter to: the controller of the
\* plugin its reduced path starts with, that plugin's dataset controller
\* when the path contains "dataset", the frame processor otherwise.
Home(i) ==
    IF \E plugin \in {"hdf", "offset"} :
           <<Upper(plugin)>> \in DOMAIN held /\ Stripped(i)[1] = plugin
    THEN IF \E k \in 1..Len(Stripped(i)) : Stripped(i)[k] = "dataset"
         THEN <<Upper(Stripped(i)[1]), "DS">>
         ELSE <<Upper(Stripped(i)[1])>>
    ELSE Top

\* How many times a controller holds a parameter.
Holds(c, i) ==
    IF c \in DOMAIN held
    THEN Cardinality({k \in 1..Len(held[c]) : held[c][k] = i})
    ELSE 0

\* Every kept parameter is held once, by its controller, and by no other.
HeldOnce ==
    \A i \in Kept :
        \A c \in DOMAIN held \cup {Home(i)} :
            Holds(c, i) = IF c = Home(i) THEN 1 ELSE 0

\* The reduced path as it is read: the uri while it is empty.
Reduced(i) ==
    IF odin_parameters[i]._path = <<>>
    THEN odin_parameters[i].uri
    ELSE odin_parameters[i]._path

\* C29 as stated: after the splitting every parameter is held by exactly one
\* controller, the one its reduced path names, and the reduced path of each
\* parameter has lost the segments its controller implies: the plugin name,
\* and "dataset" too in a dataset controller.
C29_SplitExact ==
    fpc.pc \in {"plugins", "done"} =>
        /\ HeldOnce
        /\ \A i \in Kept : Reduced(i) = Slice(Stripped(i), Len(Home(i)))

\* C29 amended: every parameter is held by exactly one controller, the one
\* its reduced path names; in a plugin controller the reduced path has lost
\* the plugin name, except status/hdf/file_path and
\* status/hdf/acquisition_id, which are renamed current_file_path and
\* current_acquisition_id; in a dataset controller it is the uri without its
\* first three segments.
C29_SplitWithRenames ==
    fpc.pc \in {"plugins", "done"} =>
        /\ HeldOnce
        /\ \A i \in Kept :
               Reduced(i) =
                   CASE Len(Home(i)) = 0 -> Stripped(i)
                     [] Len(Home(i)) = 2 -> Slice(odin_parameters[i].uri, 3)
                     [] odin_parameters[i].uri = <<"status", "hdf", "file_path">> ->
                            <<"current_file_path">>
                     [] odin_parameters[i].uri = <<"status", "hdf", "acquisition_id">> ->
                            <<"current_acquisition_id">>
                     [] OTHER -> Slice(Stripped(i), 1)

\* The parent, a plugin controller and its dataset controller each hold a
\* parameter after the splitting.
C29_Witness ==
    /\ fpc.pc = "done"
    /\ <<"HDF", "DS">> \in DOMAIN held
    /\ held[<<"HDF", "DS">>] # <<>>
    /\ held[<<"HDF">>] # <<>>
    /\ held[Top] # <<>>

----------------------------------------------------------------------------
(* Properties of puts and failed fetches racing with gets *)

\* A get has been served from the cache after a successful fetch that no put
\* has patched since.
ServedFromFetch ==
    /\ ret.op = "get"
    /\ ret.reply.kind = "none"
    /\ lastFetch.ok
    /\ ~patched

\* C26: a put is not held back by a fetch in flight: it patches the cached
\* tree and leaves the fetch in flight; a fetch that then succeeds replaces
\* the whole tree, patched or not, and a get served from the cache after it
\* returns what its path holds in the fetched tree.
C26_FetchOverwritesPut ==
    /\ [][/\ (ret'.op = "put" /\ ret'.out = Return(JNull)) =>
                 /\ patched'
                 /\ InFlight' = InFlight
                 /\ _update_event' = _update_event
          /\ (lastFetch' # lastFetch /\ lastFetch'.ok) =>
                 /\ _tree' = lastFetch'.tree
                 /\ ~patched']_vars
    /\ [](ServedFromFetch =>
              ret.out = ResolveOutcome(ret.path, lastFetch.tree))

\* A put patched the tree while a fetch was in flight, the fetch succeeded,
\* and a get with period 1 served from the cache within that period has
\* returned the fetched value and not the written one.
C26_Witness ==
    /\ raced
    /\ ServedFromFetch
    /\ ~ret.waited
    /\ ret.period = 1
    /\ now - _last_update <= 1
    /\ ret.out.kind = "return"
    /\ ret.out = ResolveOutcome(ret.path, lastFetch.tree)
    /\ ret.out.val \notin {JInt(v) : v \in Vals}

\* The step is a task calling get.
GetIssued ==
    /\ ncalls' = ncalls + 1
    /\ \A p \in Callers : task'[p].pc = "putting" => task[p].pc = "putting"

\* The update period of the get called in the step.
IssuedPeriod ==
    IF ret'.op = "get"
    THEN ret'.period
    ELSE task'[CHOOSE p \in Callers : task'[p].pc # task[p].pc].period

\* The last fetch that ended failed, and none is in flight.
AfterFailedFetch == lastFetch.id > 0 /\ ~lastFetch.ok /\ InFlight = {}

\* Only the call of a get starts a fetch, and one at most; the step in which
\* a fetch fails leaves the tree and the update time as they were.
NoRetry ==
    /\ fetches' # fetches => (GetIssued /\ fetches' = fetches + 1)
    /\ (lastFetch' # lastFetch /\ ~lastFetch'.ok) =>
           UNCHANGED <<_tree, _last_update>>

\* C27 as stated: a get makes one fetch at most, a failed fetch leaves the
\* tree and the update time as they were, and the next get called with no
\* fetch in flight starts a new fetch.
C27_NextGetFetches ==
    [][/\ NoRetry
       /\ (AfterFailedFetch /\ GetIssued) => fetches' = fetches + 1]_vars

\* C27 amended: a get makes one fetch at most, a failed fetch leaves the
\* tree and the update time as they were, and the next get called with no
\* fetch in flight starts a new fetch exactly when the cache is stale for
\* the update period of that get; otherwise it is served from the tree
\* cached before the failure.
C27_NextStaleGetFetches ==
    [][/\ NoRetry
       /\ (AfterFailedFetch /\ GetIssued) =>
              IF Stale(IssuedPeriod)
              THEN fetches' = fetches + 1
              ELSE /\ fetches' = fetches
                   /\ ret'.out = ResolveOutcome(ret'.path, _tree)]_vars

\* A fetch on a filled cache has failed and the next get has started a new
\* fetch, the tree and the update time being those of the first fetch.
C27_Witness ==
    /\ lastFetch.id > 0
    /\ ~lastFetch.ok
    /\ fetches = lastFetch.id + 1
    /\ InFlight # {}
    /\ _tree # EmptyDict
    /\ _last_update # NoUpdate

----------------------------------------------------------------------------
(* ParameterTreeAttributeIO: one cache per adapter, made by the first read *)

Adapters == {"fp", "fr"}

\* The io_ref of each attribute: adapter, path and update_period.
IORefs ==
    << [adapter |-> "fp", path |-> <<"a", "b">>, update_period |-> 1],
       [adapter |-> "fp", path |-> <<"a", "a", "b">>, update_period |-> 1],
       [adapter |-> "fr", path |-> <<"d">>, update_period |-> PeriodNone] >>

IOAttrs == 1..Len(IORefs)

\* ParameterTreeCache(path_prefix, connection): no tree, never updated, the
\* event set by __post_init__.  id tells the instances apart.
ParameterTreeCache(id) ==
    [id |-> id, _tree |-> EmptyDict, _last_update |-> NoUpdate,
     _update_event |-> TRUE]

\* update without the membership test: every read makes a cache.
NotInCacheIgnored(io_ref) == TRUE

\* `attr.io_ref.adapter not in self._cache`
NotInCache(io_ref) == io_ref.adapter \notin DOMAIN _cache

\* send asserting that some cache exists, whatever its adapter.
AssertAnyCache(io_ref) == DOMAIN _cache # {}

\* `assert attr.io_ref.adapter in self._cache`
AssertInCache(io_ref) == io_ref.adapter \in DOMAIN _cache

\* attr.datatype.validate(value) of an Int attribute: an int is taken, a
\* string of digits is cast, anything else is refused.
validate(value) ==
    IF value.kind = "int" THEN Ok(value.val)
    ELSE IF value.kind = "str" /\ value.val \in DOMAIN IntTable
    THEN Ok(IntTable[value.val])
    ELSE Err(Exc("ValueError", "Failed to cast"))

\* _has_expired of one cache.
CacheExpired(cache, time_step) ==
    IF cache._last_update = NoUpdate
    THEN TRUE
    ELSE now - cache._last_update > time_step

NoIORet ==
    [op |-> "none", attr |-> 0, fetched |-> FALSE, got |-> NoOutcome,
     out |-> NoOutcome]

IOIdle == [pc |-> "idle", value |-> 0, sent |-> 0]

IOInit ==
    /\ CacheInit
    /\ NoHier
    /\ NoFan
    /\ NoFlat
    /\ NoSplit
    /\ _cache = <<>>
    /\ io_task = [a \in IOAttrs |-> IOIdle]
    /\ io_log = [created |-> [ad \in Adapters |-> 0],
                 read |-> {},
                 gets |-> [ad \in Adapters |-> 0],
                 by |-> [ad \in Adapters |-> 0],
                 puts |-> [ad \in Adapters |-> 0],
                 calls |-> 0,
                 ret |-> NoIORet]

\* The tasks waiting on the event of an adapter's cache are made ready.
IOWake(tasks, adapter) ==
    [q \in IOAttrs |->
        IF tasks[q].pc = "waiting" /\ IORefs[q].adapter = adapter
        THEN [tasks[q] EXCEPT !.pc = "woken"]
        ELSE tasks[q]]

\* The rest of update once get has ended: the value is validated and given
\* to the attribute, or the exception leaves update.
UpdateEnded(a, fetched, got) ==
    LET cast == IF got.kind = "return" THEN validate(got.val) ELSE Err(got.exc)
    IN  [op |-> "update", attr |-> a, fetched |-> fetched, got |-> got,
         out |-> IF cast.ok THEN Return(JInt(cast.val)) ELSE Raise(cast.exc)]

\* The task of an attribute after the update that ended.
AfterUpdate(t, ended) ==
    [pc |-> "idle",
     value |-> IF ended.out.kind = "return" THEN ended.out.val.val ELSE t.value,
     sent |-> t.sent]

\* update: the cache of the adapter is made if there is none, and its get is
\* awaited, which runs to its first await or, on a fresh cache, to its end.
IOUpdate(a) ==
    /\ io_task[a].pc = "idle"
    /\ io_log.calls < MaxCalls
    /\ LET io_ref == IORefs[a]
           adapter == io_ref.adapter
           made == NotInCache(io_ref)
           caches == IF made
                     THEN (adapter :> ParameterTreeCache(io_log.created[adapter] + 1))
                              @@ _cache
                     ELSE _cache
           cache == caches[adapter]
           log == [io_log EXCEPT
                       !.calls = @ + 1,
                       !.read = @ \cup {adapter},
                       !.created[adapter] = IF made THEN @ + 1 ELSE @]
       IN  IF Falsy(io_ref.update_period)
              \/ CacheExpired(cache, io_ref.update_period)
           THEN IF cache._update_event
                THEN /\ _cache' = [caches EXCEPT ![adapter]._update_event = FALSE]
                     /\ io_task' = [io_task EXCEPT ![a].pc = "fetching"]
                     /\ io_log' = [log EXCEPT !.gets[adapter] = @ + 1,
                                              !.by[adapter] = a,
                                              !.ret = NoIORet]
                ELSE /\ _cache' = caches
                     /\ io_task' = [io_task EXCEPT ![a].pc = "waiting"]
                     /\ io_log' = [log EXCEPT !.ret = NoIORet]
           ELSE LET ended == UpdateEnded(a, FALSE,
                                 ResolveOutcome(io_ref.path, cache._tree))
                IN  /\ _cache' = caches
                    /\ io_task' = [io_task EXCEPT ![a] = AfterUpdate(@, ended)]
                    /\ io_log' = [log EXCEPT !.ret = ended]
    /\ UNCHANGED <<cacheVars, hierVars, fanVars, flatVars, splitVars>>

\* connection.get returns a body to the get an update awaits.
IOGetReturns(a, response) ==
    /\ io_task[a].pc = "fetching"
    /\ LET io_ref == IORefs[a]
           adapter == io_ref.adapter
           ended == UpdateEnded(a, TRUE,
                        IF IsErrorEnvelope(response)
                        THEN Raise(WrapError(EnvelopeError(response.items["error"])))
                        ELSE ResolveOutcome(io_ref.path, response))
       IN  /\ _cache' = [_cache EXCEPT ![adapter] =
                  IF IsErrorEnvelope(response)
                  THEN [@ EXCEPT !._update_event = TRUE]
                  ELSE [@ EXCEPT !._tree = response, !._last_update = now,
                                 !._update_event = TRUE]]
           /\ io_task' = [IOWake(io_task, adapter) EXCEPT
                              ![a] = AfterUpdate(io_task[a], ended)]
           /\ io_log' = [io_log EXCEPT !.ret = ended]
    /\ UNCHANGED <<cacheVars, hierVars, fanVars, flatVars, splitVars>>

\* connection.get raises.
IOGetRaises(a, error) ==
    /\ io_task[a].pc = "fetching"
    /\ LET adapter == IORefs[a].adapter
           ended == UpdateEnded(a, TRUE, Raise(WrapError(error)))
       IN  /\ _cache' = [_cache EXCEPT ![adapter]._update_event = TRUE]
           /\ io_task' = [IOWake(io_task, adapter) EXCEPT
                              ![a] = AfterUpdate(io_task[a], ended)]
           /\ io_log' = [io_log EXCEPT !.ret = ended]
    /\ UNCHANGED <<cacheVars, hierVars, fanVars, flatVars, splitVars>>

\* A get made ready by set() resolves its path and the update ends.
IOResume(a) ==
    /\ io_task[a].pc = "woken"
    /\ LET io_ref == IORefs[a]
           ended == UpdateEnded(a, FALSE,
                        ResolveOutcome(io_ref.path, _cache[io_ref.adapter]._tree))
       IN  /\ io_task' = [io_task EXCEPT ![a] = AfterUpdate(@, ended)]
           /\ io_log' = [io_log EXCEPT !.ret = ended]
    /\ UNCHANGED <<_cache, cacheVars, hierVars, fanVars, flatVars, splitVars>>

\* send: without a cache for the adapter the assertion fails; with one, put
\* is awaited and runs to `await connection.put`.
IOSend(a, value) ==
    /\ io_task[a].pc = "idle"
    /\ io_log.calls < MaxCalls
    /\ LET io_ref == IORefs[a]
           log == [io_log EXCEPT !.calls = @ + 1]
       IN  IF AssertInCache(io_ref)
           THEN /\ io_task' = [io_task EXCEPT ![a].pc = "putting",
                                              ![a].sent = value]
                /\ io_log' = [log EXCEPT !.puts[io_ref.adapter] = @ + 1,
                                         !.ret = NoIORet]
           ELSE /\ io_log' = [log EXCEPT !.ret =
                       [op |-> "send", attr |-> a, fetched |-> FALSE,
                        got |-> NoOutcome,
                        out |-> Raise(Exc("AssertionError", ""))]]
                /\ UNCHANGED io_task
    /\ UNCHANGED <<_cache, cacheVars, hierVars, fanVars, flatVars, splitVars>>

\* connection.put returns a body to the put a send awaits.
IOPutReturns(a, response) ==
    /\ io_task[a].pc = "putting"
    /\ response \in PutBodies(IORefs[a].path)
    /\ LET io_ref == IORefs[a]
           adapter == io_ref.adapter
           path_elems == io_ref.path
           new_value == DictGet(response, path_elems[Len(path_elems)])
           r == IF IsErrorEnvelope(response)
                THEN Err(EnvelopeError(response.items["error"]))
                ELSE _update_value(PatchElems(path_elems), new_value,
                                   _cache[adapter]._tree)
       IN  /\ _cache' = IF r.ok
                        THEN [_cache EXCEPT ![adapter]._tree = r.val]
                        ELSE _cache
           /\ io_log' = [io_log EXCEPT !.ret =
                  [op |-> "send", attr |-> a, fetched |-> FALSE,
                   got |-> NoOutcome,
                   out |-> IF r.ok THEN Return(JNull)
                           ELSE Raise(WrapError(r.exc))]]
    /\ io_task' = [io_task EXCEPT ![a].pc = "idle"]
    /\ UNCHANGED <<cacheVars, hierVars, fanVars, flatVars, splitVars>>

\* connection.put raises.
IOPutRaises(a, error) ==
    /\ io_task[a].pc = "putting"
    /\ io_task' = [io_task EXCEPT ![a].pc = "idle"]
    /\ io_log' = [io_log EXCEPT !.ret =
           [op |-> "send", attr |-> a, fetched |-> FALSE, got |-> NoOutcome,
            out |-> Raise(WrapError(error))]]
    /\ UNCHANGED <<_cache, cacheVars, hierVars, fanVars, flatVars, splitVars>>

IONext ==
    \/ \E a \in IOAttrs : IOUpdate(a)
    \/ \E a \in IOAttrs, response \in GetBodies : IOGetReturns(a, response)
    \/ \E a \in IOAttrs, error \in TransportErrors : IOGetRaises(a, error)
    \/ \E a \in IOAttrs : IOResume(a)
    \/ \E a \in IOAttrs, value \in SharedPutValues : IOSend(a, value)
    \/ \E a \in IOAttrs, response \in AllPutBodies : IOPutReturns(a, response)
    \/ \E a \in IOAttrs, error \in TransportErrors : IOPutRaises(a, error)
    \/ Tick

IOSpec == IOInit /\ [][IONext]_vars

----------------------------------------------------------------------------
(* Properties of ParameterTreeAttributeIO *)

\* The step is the call of update on attribute a.
UpdateIssued(a) ==
    /\ io_log'.calls = io_log.calls + 1
    /\ io_task[a].pc = "idle"
    /\ \/ io_task'[a].pc \in {"fetching", "waiting"}
       \/ io_log'.ret.op = "update" /\ io_log'.ret.attr = a

\* The step is the call of send on attribute a.
SendIssued(a) ==
    /\ io_log'.calls = io_log.calls + 1
    /\ io_task[a].pc = "idle"
    /\ \/ io_task'[a].pc = "putting"
       \/ io_log'.ret.op = "send" /\ io_log'.ret.attr = a

\* The cache of the adapter holds a tree fetched no longer ago than the
\* update period.
Fresh(io_ref) ==
    /\ io_ref.adapter \in DOMAIN _cache
    /\ _cache[io_ref.adapter]._last_update # NoUpdate
    /\ io_ref.update_period > 0
    /\ now - _cache[io_ref.adapter]._last_update <= io_ref.update_period

\* C28: whatever reads interleave, one cache at most is made for an adapter
\* and it stays the cache of that adapter, and a read of an attribute whose
\* adapter's cache holds a tree fetched within the update period, for
\* whichever attribute, is served from that tree with no connection.get.
C28_OneCachePerAdapter ==
    /\ [](\A ad \in Adapters :
              /\ io_log.created[ad] <= 1
              /\ ad \in DOMAIN _cache <=> io_log.created[ad] = 1
              /\ ad \in DOMAIN _cache => _cache[ad].id = 1)
    /\ [][\A a \in IOAttrs :
              (UpdateIssued(a) /\ Fresh(IORefs[a])) =>
                  /\ io_log'.gets = io_log.gets
                  /\ io_log'.ret.op = "update"
                  /\ io_log'.ret.got =
                         ResolveOutcome(IORefs[a].path,
                                        _cache[IORefs[a].adapter]._tree)]_vars

\* A read of one attribute has been served, with no connection.get, from the
\* tree that the read of another attribute of the same adapter fetched.
C28_Witness ==
    /\ io_log.ret.op = "update"
    /\ ~io_log.ret.fetched
    /\ io_log.ret.got.kind = "return"
    /\ io_log.gets[IORefs[io_log.ret.attr].adapter] = 1
    /\ io_log.by[IORefs[io_log.ret.attr].adapter] # io_log.ret.attr
    /\ io_task[io_log.ret.attr].value >= 10

\* C30: a send on an attribute whose adapter has no cache raises
\* AssertionError and sends no PUT, and a PUT is only ever sent to an adapter
\* of which some attribute has been read before.
C30_SendNeedsRead ==
    /\ [][\A a \in IOAttrs :
              (SendIssued(a) /\ IORefs[a].adapter \notin DOMAIN _cache) =>
                  /\ io_log'.ret.op = "send"
                  /\ io_log'.ret.out.kind = "raise"
                  /\ io_log'.ret.out.exc.type = "AssertionError"
                  /\ io_log'.puts = io_log.puts
                  /\ _cache' = _cache]_vars
    /\ [](\A ad \in Adapters : io_log.puts[ad] > 0 => ad \in io_log.read)

\* A send to an adapter never read has failed on the assertion although a
\* send to the other adapter, read before, sent its PUT.
C30_Witness ==
    /\ io_log.ret.op = "send"
    /\ io_log.ret.out.kind = "raise"
    /\ io_log.ret.out.exc.type = "AssertionError"
    /\ IORefs[io_log.ret.attr].adapter \notin io_log.read
    /\ \E ad \in Adapters : io_log.puts[ad] > 0

====
